---- MODULE Spec2Model ----
(***************************************************************************)
(* GKR / sum-check proving engine of the processor's virtual bus           *)
(* (processor/src/trace/virtual_bus): the Lagrange kernel, the fraction    *)
(* circuit wires, the univariate round-polynomial codec and the generic    *)
(* sum-check engine, over a prime field.                                   *)
(*                                                                         *)
(* Each component is a state machine of its own (SpecEq, SpecWire,         *)
(* SpecPoly, SpecSC, SpecV, SpecEqEval, SpecFractions, SpecCircuit,        *)
(* SpecReduce, SpecGkr, SpecComposition, SpecMerge, SpecLine) and so is    *)
(* the block stack table column of the decoder (SpecBlockStack); the       *)
(* variables of the components a specification does not run stay at their *)
(* idle value.                                                             *)
(***************************************************************************)
EXTENDS Integers, Sequences, FiniteSets, TLC

VARIABLES eq, wire, poly, sc, prover, proof, oracle, verifier, circuit, gkr

vars == <<eq, wire, poly, sc, prover, proof, oracle, verifier, circuit, gkr>>

Idle == [pc |-> "idle"]

(***************************************************************************)
(* The field.  Felt is the prime field of order 2^64 - 2^32 + 1; the model *)
(* runs the same arithmetic over the prime field of order P.               *)
(***************************************************************************)
P == 5

F == 0 .. (P - 1)

ZERO == 0

ONE == 1

FAdd(a, b) == (a + b) % P

FSub(a, b) == (a - b + P) % P

FMul(a, b) == (a * b) % P

FNeg(a) == (P - a) % P

\* the multiplicative inverse of a nonzero element (FieldElement::inv)
FInv(a) == CHOOSE y \in F : (a * y) % P = 1

\* the image of an integer in the field (Felt::from)
FromInt(n) == n % P

\* 0-based access to and update of a vector
At(v, i) == v[i + 1]

Set(v, i, x) == [v EXCEPT ![i + 1] = x]

Pow2(n) == 2 ^ n

\* i-th bit of the index y
Bit(y, i) == (y \div Pow2(i)) % 2

RECURSIVE SumSeq(_)
SumSeq(s) == IF s = <<>> THEN ZERO ELSE FAdd(s[1], SumSeq(Tail(s)))

RECURSIVE ProdSeq(_)
ProdSeq(s) == IF s = <<>> THEN ONE ELSE FMul(s[1], ProdSeq(Tail(s)))

\* all vectors of length n over the set S
Vec(S, n) == [1 .. n -> S]

(***************************************************************************)
(* multilinear/lagrange_ker.rs                                             *)
(***************************************************************************)

\* the bounds of the Lagrange kernel machine: the dimension of the point
MaxNuEq == 2

\* the inner loop of compute_lagrange_basis_evals_at:
\*   for i in (0..size).rev().step_by(2), that is i = size-1, size-3, ..., 1
RECURSIVE LagrangeInner(_, _, _)
LagrangeInner(evals, r_i, i) ==
    IF i < 1 THEN evals
    ELSE LET scalar == At(evals, i \div 2)
             e1 == Set(evals, i, FMul(scalar, r_i))
             e2 == Set(e1, i - 1, FSub(scalar, At(e1, i)))
         IN LagrangeInner(e2, r_i, i - 2)

\* the outer loop: for r_i in query.iter().rev(), size doubling each time;
\* k is the 1-based position of r_i in query
RECURSIVE LagrangeOuter(_, _, _, _)
LagrangeOuter(evals, size, query, k) ==
    IF k = 0 THEN evals
    ELSE LagrangeOuter(LagrangeInner(evals, query[k], 2 * size - 1),
                       2 * size, query, k - 1)

\* the kernel as it would be with the coordinates taken in forward order
\* (query.iter() in place of query.iter().rev())
compute_lagrange_basis_evals_at_forward(query) ==
    LET rev == [i \in 1 .. Len(query) |-> query[Len(query) + 1 - i]]
    IN LagrangeOuter([i \in 1 .. Pow2(Len(query)) |-> ONE], 1, rev, Len(rev))

compute_lagrange_basis_evals_at(query) ==
    LagrangeOuter([i \in 1 .. Pow2(Len(query)) |-> ONE], 1, query, Len(query))

\* EqFunction::evaluations of EqFunction::new(r)
EqEvaluations(r) == compute_lagrange_basis_evals_at(r)

\* inner_product: the fold over the zipped vectors, after the length assertion
RECURSIVE InnerFold(_, _, _, _)
InnerFold(acc, evaluations, tensored_query, k) ==
    IF k > Len(evaluations) THEN acc
    ELSE InnerFold(FAdd(acc, FMul(evaluations[k], tensored_query[k])),
                   evaluations, tensored_query, k + 1)

inner_product(evaluations, tensored_query) ==
    IF Len(evaluations) # Len(tensored_query)
    THEN [ok |-> FALSE, val |-> ZERO]
    ELSE [ok |-> TRUE, val |-> InnerFold(ZERO, evaluations, tensored_query, 1)]

(***************************************************************************)
(* The Lagrange kernel machine: a point r of dimension nu and a function f *)
(* on the boolean hypercube are given; the kernel at r is computed, then   *)
(* its inner product with f.                                               *)
(***************************************************************************)
EqInit ==
    \E nu \in 0 .. MaxNuEq :
      \E r \in Vec(F, nu), f \in Vec({0, 1}, Pow2(nu)) :
        eq = [pc |-> "start", r |-> r, f |-> f, kernel |-> <<>>,
              ip |-> [ok |-> FALSE, val |-> ZERO]]

EqKernel ==
    /\ eq.pc = "start"
    /\ eq' = [eq EXCEPT !.pc = "kernel", !.kernel = EqEvaluations(eq.r)]
    /\ UNCHANGED <<wire, poly, sc, prover, proof, oracle, verifier,
                 circuit, gkr>>

EqInner ==
    /\ eq.pc = "kernel"
    /\ eq' = [eq EXCEPT !.pc = "done", !.ip = inner_product(eq.kernel, eq.f)]
    /\ UNCHANGED <<wire, poly, sc, prover, proof, oracle, verifier,
                 circuit, gkr>>

InitEq ==
    /\ EqInit
    /\ wire = Idle /\ poly = Idle /\ sc = Idle /\ prover = Idle
    /\ proof = Idle /\ oracle = {} /\ verifier = Idle
    /\ circuit = Idle /\ gkr = Idle

NextEq == EqKernel \/ EqInner

SpecEq == InitEq /\ [][NextEq]_vars

\* prod_i (r_i*y_i + (1-r_i)*(1-y_i)), y_i the i-th bit of y, r_0 first
EqTerm(r, y) ==
    ProdSeq([i \in 1 .. Len(r) |->
               FAdd(FMul(r[i], Bit(y, i - 1)),
                    FMul(FSub(ONE, r[i]), FSub(ONE, Bit(y, i - 1))))])

\* the multilinear extension of f at r
MLE(f, r) == SumSeq([k \in 1 .. Len(f) |-> FMul(f[k], EqTerm(r, k - 1))])

\* C3: the kernel at r has prod_i (r_i*y_i + (1-r_i)*(1-y_i)) at index y, and
\* its inner product with f is the multilinear extension of f at r, for
\* every dimension from 0 on.
C3_LagrangeKernel ==
    /\ eq.pc \in {"kernel", "done"} =>
         /\ Len(eq.kernel) = Pow2(Len(eq.r))
         /\ \A y \in 0 .. (Len(eq.kernel) - 1) :
              At(eq.kernel, y) = EqTerm(eq.r, y)
    /\ eq.pc = "done" => eq.ip = [ok |-> TRUE, val |-> MLE(eq.f, eq.r)]

\* a point of dimension 2 whose coordinates differ and are not boolean, and
\* a function that is not symmetric in its two variables
C3_Witness ==
    /\ eq.pc = "done"
    /\ Len(eq.r) = 2 /\ eq.r[1] = 2 /\ eq.r[2] = 3
    /\ eq.f = <<0, 1, 0, 0>>
    /\ eq.ip.ok /\ eq.ip.val # ZERO

(***************************************************************************)
(* circuit/mod.rs: CircuitWire                                             *)
(***************************************************************************)

\* what a call leaves when it ends in a panic: there is no wire
NoWire == [ok |-> FALSE, numerator |-> ZERO, denominator |-> ZERO]

\* CircuitWire::new without its assertion
CircuitWire_new_unchecked(numerator, denominator) ==
    [ok |-> TRUE, numerator |-> numerator, denominator |-> denominator]

\* CircuitWire::new: assert_ne!(denominator, E::ZERO), then the wire
CircuitWire_new(numerator, denominator) ==
    IF denominator = ZERO THEN NoWire
    ELSE [ok |-> TRUE, numerator |-> numerator, denominator |-> denominator]

\* the gate with the second cross product taken with the wrong denominator
CircuitWire_add_slip(self, other) ==
    IF ~self.ok \/ ~other.ok THEN NoWire
    ELSE CircuitWire_new(
           FAdd(FMul(self.numerator, other.denominator),
                FMul(other.numerator, other.denominator)),
           FMul(self.denominator, other.denominator))

\* impl Add for CircuitWire (a panic in an operand's computation propagates)
CircuitWire_add(self, other) ==
    IF ~self.ok \/ ~other.ok THEN NoWire
    ELSE LET numerator == FAdd(FMul(self.numerator, other.denominator),
                               FMul(other.numerator, self.denominator))
             denominator == FMul(self.denominator, other.denominator)
         IN CircuitWire_new(numerator, denominator)

(***************************************************************************)
(* The wire machine: three wires w1, w2, w3 are constructed one after the  *)
(* other from arbitrary field elements, then added in some order, once     *)
(* associated to the left and once to the right.  A panic ends the run.    *)
(***************************************************************************)
WireSlots == <<"w1", "w2", "w3">>

WireInit ==
    wire = [pc |-> "run", built |-> 0, w1 |-> NoWire, w2 |-> NoWire,
            w3 |-> NoWire,
            last_new |-> [numerator |-> ZERO, denominator |-> ZERO],
            sumL |-> NoWire, sumR |-> NoWire]

WireNew ==
    /\ wire.pc = "run"
    /\ wire.built < Len(WireSlots)
    /\ \E n \in F, d \in F :
         LET w == CircuitWire_new(n, d)
             slot == WireSlots[wire.built + 1]
         IN wire' = [wire EXCEPT
                       !.pc = IF w.ok THEN "run" ELSE "abort",
                       !.built = IF w.ok THEN wire.built + 1 ELSE wire.built,
                       ![slot] = w,
                       !.last_new = [numerator |-> n, denominator |-> d]]
    /\ UNCHANGED <<eq, poly, sc, prover, proof, oracle, verifier, circuit, gkr>>

WireAdd ==
    /\ wire.pc = "run"
    /\ wire.built = Len(WireSlots)
    /\ \E a \in 1 .. 3, b \in 1 .. 3, c \in 1 .. 3 :
         /\ {a, b, c} = {1, 2, 3}
         /\ LET x == wire[WireSlots[a]]
                y == wire[WireSlots[b]]
                z == wire[WireSlots[c]]
                l == CircuitWire_add(CircuitWire_add(x, y), z)
                r == CircuitWire_add(x, CircuitWire_add(y, z))
            IN wire' = [wire EXCEPT
                          !.pc = IF l.ok /\ r.ok THEN "added" ELSE "abort",
                          !.sumL = l, !.sumR = r]
    /\ UNCHANGED <<eq, poly, sc, prover, proof, oracle, verifier, circuit, gkr>>

InitWire ==
    /\ WireInit
    /\ eq = Idle /\ poly = Idle /\ sc = Idle /\ prover = Idle
    /\ proof = Idle /\ oracle = {} /\ verifier = Idle
    /\ circuit = Idle /\ gkr = Idle

NextWire == WireNew \/ WireAdd

SpecWire == InitWire /\ [][NextWire]_vars

\* n/d with the field inverse
Ratio(w) == FMul(w.numerator, FInv(w.denominator))

\* C4: (w1+w2)+w3 and w1+(w2+w3), in whatever order the three wires are
\* taken, give the same pair (n, d), with d nonzero and
\* n/d = n1/d1 + n2/d2 + n3/d3.
C4_FractionGate ==
    wire.pc \in {"added", "abort"} /\ wire.built = 3 =>
      /\ wire.pc = "added"
      /\ wire.sumL.ok /\ wire.sumR.ok
      /\ wire.sumL = wire.sumR
      /\ wire.sumL.numerator =
           FAdd(FAdd(FMul(wire.w1.numerator,
                          FMul(wire.w2.denominator, wire.w3.denominator)),
                     FMul(wire.w2.numerator,
                          FMul(wire.w1.denominator, wire.w3.denominator))),
                FMul(wire.w3.numerator,
                     FMul(wire.w1.denominator, wire.w2.denominator)))
      /\ wire.sumL.denominator =
           FMul(wire.w1.denominator,
                FMul(wire.w2.denominator, wire.w3.denominator))
      /\ wire.sumL.denominator # ZERO
      /\ Ratio(wire.sumL) =
           FAdd(FAdd(Ratio(wire.w1), Ratio(wire.w2)), Ratio(wire.w3))

\* three wires of different values, none of them zero, have been added
C4_Witness ==
    /\ wire.pc = "added"
    /\ wire.w1 = [ok |-> TRUE, numerator |-> 1, denominator |-> 2]
    /\ wire.w2 = [ok |-> TRUE, numerator |-> 3, denominator |-> 4]
    /\ wire.w3 = [ok |-> TRUE, numerator |-> 2, denominator |-> 3]
    /\ wire.sumL.numerator # ZERO

\* the slot the last call of CircuitWire::new was to fill
LastSlot ==
    wire[WireSlots[IF wire.pc = "abort" THEN wire.built + 1 ELSE wire.built]]

\* C10: CircuitWire::new aborts, and leaves no wire, exactly when the
\* denominator is zero; otherwise the wire holds the given numerator and
\* denominator.
C10_WireNew ==
    (wire.pc \in {"run", "abort"} /\ wire.sumL = NoWire
       /\ (wire.built > 0 \/ wire.pc = "abort")) =>
      /\ (wire.pc = "abort") <=> (wire.last_new.denominator = ZERO)
      /\ wire.pc = "abort" => ~LastSlot.ok
      /\ wire.pc = "run" =>
           /\ LastSlot.ok
           /\ LastSlot.numerator = wire.last_new.numerator
           /\ LastSlot.denominator = wire.last_new.denominator

\* both outcomes: a call with a zero denominator after a successful one
C10_Witness ==
    /\ wire.pc = "abort"
    /\ wire.built = 1
    /\ wire.w1.ok /\ wire.w1.denominator = 3
    /\ wire.last_new = [numerator |-> 2, denominator |-> ZERO]
    /\ ~wire.w2.ok

(***************************************************************************)
(* univariate.rs: the round polynomial in evaluation and coefficient form  *)
(***************************************************************************)

\* the largest degree of the polynomials of the codec machine (below P)
MaxDeg == 3

\* what a call on vectors leaves when it ends in a panic
Panic == [ok |-> FALSE, val |-> <<>>]

Zeros(n) == [k \in 1 .. n |-> ZERO]

\* polynom::eval and the test helper eval: Horner's method,
\*   p.iter().rev().fold(ZERO, |acc, coeff| acc * x + coeff)
RECURSIVE HornerFold(_, _, _, _)
HornerFold(acc, p, x, k) ==
    IF k = 0 THEN acc
    ELSE HornerFold(FAdd(FMul(acc, x), p[k]), p, x, k - 1)

eval(p, x) == HornerFold(ZERO, p, x, Len(p))

\* batch_inversion: the inverse of every element, zero staying zero
batch_inversion(v) ==
    [k \in 1 .. Len(v) |-> IF v[k] = ZERO THEN ZERO ELSE FInv(v[k])]

\* compute_u_entry and the loop over j of multiply_by_u:
\*   for (j, v) in vector.iter().enumerate().take(i + 1).skip(1)
RECURSIVE UInner(_, _, _, _, _, _)
UInner(vector, previous_u_col, current_u_col, res, j, i) ==
    IF j > i THEN [col |-> current_u_col, res |-> res]
    ELSE LET value == FSub(At(previous_u_col, j), At(previous_u_col, j - 1))
         IN UInner(vector, previous_u_col, Set(current_u_col, j, value),
                   FAdd(res, FMul(At(vector, j), value)), j + 1, i)

\* the loop over the entries of the result of multiply_by_u
RECURSIVE UOuter(_, _, _, _, _)
UOuter(vector, previous_u_col, current_u_col, result, i) ==
    IF i >= Len(vector) THEN result
    ELSE LET st == UInner(vector, previous_u_col, current_u_col,
                           At(vector, 0), 1, i)
         IN UOuter(vector, st.col, st.col, Set(result, i, st.res), i + 1)

multiply_by_u(vector) ==
    LET n == Len(vector)
        e0 == [k \in 1 .. n |-> IF k = 1 THEN ONE ELSE ZERO]
    IN UOuter(vector, e0, e0, Zeros(n), 0)

\* compute_m_entry and the loop over j of multiply_by_m:
\*   for (j, v) in vector.iter().enumerate().skip(i)
RECURSIVE MInner(_, _, _, _, _, _)
MInner(vector, nodes_inv, previous_m_col, current_m_col, res, j) ==
    IF j >= Len(vector) THEN [col |-> current_m_col, res |-> res]
    ELSE LET value == FSub(At(current_m_col, j - 1),
                           FMul(At(nodes_inv, j - 1), At(previous_m_col, j - 1)))
         IN MInner(vector, nodes_inv, previous_m_col,
                   Set(current_m_col, j, value),
                   FAdd(res, FMul(At(vector, j), value)), j + 1)

\* the loop over the entries 1.. of the result of multiply_by_m
RECURSIVE MOuter(_, _, _, _, _)
MOuter(vector, nodes_inv, previous_m_col, result, i) ==
    IF i >= Len(vector) THEN result
    ELSE LET st == MInner(vector, nodes_inv, previous_m_col,
                           Zeros(Len(vector)), ZERO, i)
         IN MOuter(vector, nodes_inv, st.col, Set(result, i, st.res), i + 1)

multiply_by_m(vector, nodes_inv) ==
    LET n == Len(vector)
        ones == [k \in 1 .. n |-> ONE]
    IN MOuter(vector, nodes_inv, ones, Set(Zeros(n), 0, SumSeq(vector)), 1)

\* the product by the inverse Vandermonde matrix with M taken before U
multiply_by_inverse_vandermonde_swapped(vector, nodes_inv) ==
    multiply_by_u(multiply_by_m(vector, nodes_inv))

multiply_by_inverse_vandermonde(vector, nodes_inv) ==
    multiply_by_m(multiply_by_u(vector), nodes_inv)

\* to_poly with the evaluations of q left unnormalised (no division by i)
to_poly_slip(partial_evaluations, round_claim) ==
    IF Len(partial_evaluations) = 0 THEN Panic
    ELSE LET n_minus_1 == Len(partial_evaluations)
             points_inv ==
               batch_inversion([k \in 1 .. n_minus_1 |-> FromInt(k)])
             c0 == FSub(round_claim, At(partial_evaluations, 0))
             q_evals == [k \in 1 .. n_minus_1 |->
                            FSub(partial_evaluations[k], c0)]
             q_coefs == multiply_by_inverse_vandermonde(q_evals, points_inv)
         IN [ok |-> TRUE, val |-> <<c0>> \o Tail(q_coefs)]

\* UnivariatePolyEvals::to_poly; partial_evaluations[0] panics on an empty
\* vector.  The value is the coefficient vector of UnivariatePolyCoef.
to_poly(partial_evaluations, round_claim) ==
    IF Len(partial_evaluations) = 0 THEN Panic
    ELSE LET n_minus_1 == Len(partial_evaluations)
             points == [k \in 1 .. n_minus_1 |-> FromInt(k)]
             points_inv == batch_inversion(points)
             c0 == FSub(round_claim, At(partial_evaluations, 0))
             q_evals == [k \in 1 .. n_minus_1 |->
                            FMul(FSub(partial_evaluations[k], c0),
                                 points_inv[k])]
             q_coefs == multiply_by_inverse_vandermonde(q_evals, points_inv)
         IN [ok |-> TRUE, val |-> <<c0>> \o Tail(q_coefs)]

\* evaluate_using_claim with the linear coefficient recovered without
\* taking the constant one off a second time
evaluate_using_claim_slip(coefficients, claim, challenge) ==
    IF Len(coefficients) = 0 THEN Panic
    ELSE LET c1 == FSub(claim, SumSeq(coefficients))
             complete_coefficients == <<At(coefficients, 0), c1>> \o Tail(coefficients)
         IN [ok |-> TRUE, val |-> <<eval(complete_coefficients, challenge)>>]

\* UnivariatePolyCoef::evaluate_using_claim; coefficients[0] panics on an
\* empty vector
evaluate_using_claim(coefficients, claim, challenge) ==
    IF Len(coefficients) = 0 THEN Panic
    ELSE LET c1 == FSub(FSub(claim, SumSeq(coefficients)),
                        At(coefficients, 0))
             complete_coefficients ==
               <<At(coefficients, 0), c1>> \o Tail(coefficients)
         IN [ok |-> TRUE, val |-> <<eval(complete_coefficients, challenge)>>]

(***************************************************************************)
(* sum_check/mod.rs: RoundProof, RoundClaim, reduce_claim; the evaluation  *)
(* domain of sum_check/domain.rs                                           *)
(***************************************************************************)

\* EvaluationDomain::new(max_degree).evaluate(evals, r): the value at r of
\* the polynomial of degree at most max_degree that takes the values evals
\* at 0, 1, ..., max_degree.  A vector of another length cannot be indexed
\* over the domain.
EvaluationDomain_evaluate(max_degree, evals, r) ==
    IF Len(evals) # max_degree + 1 THEN Panic
    ELSE LET basis(i) ==
               ProdSeq([j \in 1 .. (max_degree + 1) |->
                          IF j - 1 = i THEN ONE
                          ELSE FMul(FSub(r, FromInt(j - 1)),
                                    FInv(FSub(FromInt(i), FromInt(j - 1))))])
         IN [ok |-> TRUE,
             val |-> <<SumSeq([k \in 1 .. (max_degree + 1) |->
                                 FMul(evals[k], basis(k - 1))])>>]

\* to_evals with the subtraction the other way round
to_evals_negated(poly_evals, claim) ==
    IF Len(poly_evals) = 0 THEN Panic
    ELSE [ok |-> TRUE, val |-> <<FSub(At(poly_evals, 0), claim)>> \o poly_evals]

\* to_evals with the evaluation at 0 taken to be the claim itself
to_evals_slip(poly_evals, claim) ==
    IF Len(poly_evals) = 0 THEN Panic
    ELSE [ok |-> TRUE, val |-> <<claim>> \o poly_evals]

\* RoundProof::to_evals; self.poly_evals[0] panics on an empty vector
to_evals(poly_evals, claim) ==
    IF Len(poly_evals) = 0 THEN Panic
    ELSE LET c0 == FSub(claim, At(poly_evals, 0))
         IN [ok |-> TRUE, val |-> <<c0>> \o poly_evals]

\* what reduce_claim leaves when it ends in a panic
NoClaim == [ok |-> FALSE, eval_point |-> <<>>, claim |-> ZERO]

\* reduce_claim with the challenge put in front of the evaluation point
reduce_claim_slip(max_degree, current_poly, current_round_claim, round_challenge) ==
    LET poly_evals == to_evals(current_poly, current_round_claim.claim)
        new_claim == EvaluationDomain_evaluate(max_degree, poly_evals.val,
                                               round_challenge)
    IN IF ~poly_evals.ok \/ ~new_claim.ok THEN NoClaim
       ELSE [ok |-> TRUE,
             eval_point |-> <<round_challenge>>
                              \o current_round_claim.eval_point,
             claim |-> new_claim.val[1]]

\* reduce_claim with the challenge not pushed to the evaluation point
reduce_claim_stale(max_degree, current_poly, current_round_claim, round_challenge) ==
    LET poly_evals == to_evals(current_poly, current_round_claim.claim)
        new_claim == EvaluationDomain_evaluate(max_degree, poly_evals.val,
                                               round_challenge)
    IN IF ~poly_evals.ok \/ ~new_claim.ok THEN NoClaim
       ELSE [ok |-> TRUE,
             eval_point |-> current_round_claim.eval_point,
             claim |-> new_claim.val[1]]

\* reduce_claim; the domain is given by its max_degree
reduce_claim(max_degree, current_poly, current_round_claim, round_challenge) ==
    LET poly_evals == to_evals(current_poly, current_round_claim.claim)
        new_claim == EvaluationDomain_evaluate(max_degree, poly_evals.val,
                                               round_challenge)
    IN IF ~poly_evals.ok \/ ~new_claim.ok THEN NoClaim
       ELSE [ok |-> TRUE,
             eval_point |-> Append(current_round_claim.eval_point,
                                   round_challenge),
             claim |-> new_claim.val[1]]

(***************************************************************************)
(* The codec machine, after test_poly_partial and test_evaluation_domain:  *)
(* a polynomial p of degree at most d and a challenge r are given; p is    *)
(* evaluated over 0..d; then either the evaluations at 1..d go through     *)
(* to_poly and evaluate_using_claim, or through reduce_claim, or all of    *)
(* them through the evaluation domain.                                     *)
(***************************************************************************)

\* the points of the domain as the tests build them: 0, 1, ..., max_degree
\* shifted by one
DomainPoints_from_one(max_degree) ==
    [k \in 1 .. (max_degree + 1) |-> FromInt(k)]

\* (0..=max_degree).map(|x| Felt::from(x))
DomainPoints(max_degree) == [k \in 1 .. (max_degree + 1) |-> FromInt(k - 1)]

\* polynom::eval_many
eval_many(p, xs) == [k \in 1 .. Len(xs) |-> eval(p, xs[k])]

PolyInit ==
    \E d \in 0 .. MaxDeg :
      \E p \in Vec(F, d + 1), r \in F :
        poly = [pc |-> "start", p |-> p, r |-> r, evals |-> <<>>,
                partial_evals |-> <<>>, claim |-> ZERO, coef |-> Panic,
                y |-> Panic, reduced |-> NoClaim]

\* the evaluations of p over the domain, those at 1..d, and p(0) + p(1)
PolyEvaluate ==
    /\ poly.pc = "start"
    /\ LET evals == eval_many(poly.p, DomainPoints(Len(poly.p) - 1))
       IN poly' = [poly EXCEPT
                     !.pc = "evals", !.evals = evals,
                     !.partial_evals = Tail(evals),
                     !.claim = FAdd(eval(poly.p, ZERO), eval(poly.p, ONE))]
    /\ UNCHANGED <<eq, wire, sc, prover, proof, oracle, verifier, circuit, gkr>>

PolyToPoly ==
    /\ poly.pc = "evals"
    /\ LET c == to_poly(poly.partial_evals, poly.claim)
       IN poly' = [poly EXCEPT !.pc = IF c.ok THEN "coef" ELSE "abort_to_poly",
                               !.coef = c]
    /\ UNCHANGED <<eq, wire, sc, prover, proof, oracle, verifier, circuit, gkr>>

PolyEvaluateUsingClaim ==
    /\ poly.pc = "coef"
    /\ LET y == evaluate_using_claim(poly.coef.val, poly.claim, poly.r)
       IN poly' = [poly EXCEPT !.pc = IF y.ok THEN "codec_done"
                                     ELSE "abort_evaluate_using_claim",
                               !.y = y]
    /\ UNCHANGED <<eq, wire, sc, prover, proof, oracle, verifier, circuit, gkr>>

PolyReduceClaim ==
    /\ poly.pc = "evals"
    /\ LET c == reduce_claim(Len(poly.p) - 1, poly.partial_evals,
                             [eval_point |-> <<>>, claim |-> poly.claim],
                             poly.r)
       IN poly' = [poly EXCEPT !.pc = IF c.ok THEN "reduce_done"
                                     ELSE "abort_reduce_claim",
                               !.reduced = c]
    /\ UNCHANGED <<eq, wire, sc, prover, proof, oracle, verifier, circuit, gkr>>

PolyDomainEvaluate ==
    /\ poly.pc = "evals"
    /\ LET y == EvaluationDomain_evaluate(Len(poly.p) - 1, poly.evals, poly.r)
       IN poly' = [poly EXCEPT !.pc = IF y.ok THEN "domain_done"
                                     ELSE "abort_evaluate",
                               !.y = y]
    /\ UNCHANGED <<eq, wire, sc, prover, proof, oracle, verifier, circuit, gkr>>

InitPoly ==
    /\ PolyInit
    /\ eq = Idle /\ wire = Idle /\ sc = Idle /\ prover = Idle
    /\ proof = Idle /\ oracle = {} /\ verifier = Idle
    /\ circuit = Idle /\ gkr = Idle

NextPoly ==
    \/ PolyEvaluate
    \/ PolyToPoly
    \/ PolyEvaluateUsingClaim
    \/ PolyReduceClaim
    \/ PolyDomainEvaluate

SpecPoly == InitPoly /\ [][NextPoly]_vars

\* the degree bound of the polynomial of the codec machine
PolyDeg == Len(poly.p) - 1

\* C5: with partial_evaluations = [p(1), ..., p(d)], d >= 1, and
\* claim = p(0) + p(1), to_poly(claim) does not abort and
\* evaluate_using_claim(claim, r) on its result is p(r).
C5_CodecRoundTrip ==
    /\ poly.pc \in {"abort_to_poly", "abort_evaluate_using_claim"}
         => PolyDeg = 0
    /\ poly.pc = "coef" =>
         /\ poly.coef.ok
         /\ Len(poly.coef.val) = PolyDeg
    /\ poly.pc = "codec_done" =>
         poly.y = [ok |-> TRUE, val |-> <<eval(poly.p, poly.r)>>]

\* a cubic with nonzero leading coefficient, away from the interpolation
\* nodes, has gone through the codec
C5_Witness ==
    /\ poly.pc = "codec_done"
    /\ poly.p = <<1, 2, 0, 3>>
    /\ poly.r = 4
    /\ poly.y.ok

\* C6: with a round polynomial of degree 0 or 1 (0 or 1 evaluations),
\* to_evals (inside reduce_claim), to_poly and evaluate_using_claim complete
\* without abort.
C6_DegenerateDegrees ==
    PolyDeg <= 1 =>
      poly.pc \notin {"abort_reduce_claim", "abort_to_poly",
                      "abort_evaluate_using_claim"}

C9_WitnessAtNode ==
    /\ poly.pc = "domain_done"
    /\ PolyDeg = 3 /\ poly.r = 2
    /\ poly.y.ok

(***************************************************************************)
(* The compositions and the query builder of the sum-check tests           *)
(* (sum_check/mod.rs, mod test)                                            *)
(***************************************************************************)
Compositions == {"projection", "product"}

\* CompositionPolynomial::num_variables: the number of multilinears
num_variables(comp) == IF comp = "projection" THEN 1 ELSE 2

\* CompositionPolynomial::max_degree
max_degree(comp) == IF comp = "projection" THEN 1 ELSE 2

\* ProductComposition::evaluate with the first factor taken twice
evaluate_slip(comp, query) ==
    IF comp = "projection"
    THEN IF Len(query) < 1 THEN Panic
         ELSE [ok |-> TRUE, val |-> <<At(query, 0)>>]
    ELSE IF Len(query) # 2 THEN Panic
         ELSE [ok |-> TRUE, val |-> <<FMul(At(query, 0), At(query, 0))>>]

\* CompositionPolynomial::evaluate: ProjectionComposition::new(0) indexes
\* query[0]; ProductComposition asserts the length 2 and multiplies
evaluate(comp, query) ==
    IF comp = "projection"
    THEN IF Len(query) < 1 THEN Panic
         ELSE [ok |-> TRUE, val |-> <<At(query, 0)>>]
    ELSE IF Len(query) # 2 THEN Panic
         ELSE [ok |-> TRUE, val |-> <<FMul(At(query, 0), At(query, 1))>>]

\* PlainQueryBuilder::build_query
build_query(openings, evaluation_point) == openings

(***************************************************************************)
(* The sum-check prover and verifier (sum_check/prover, sum_check/verifier)*)
(* and the random coin they share                                          *)
(***************************************************************************)

\* the bounds of the sum-check machine: the number of variables and the
\* number of nonzero entries of the input multilinears
MaxNu == 2

MaxOnes == 2

\* the bound of the verifier machine: the number of round proofs of a proof
MaxRoundsV == 2

\* the value at t of the restriction of a multilinear to its pair i, the
\* least-significant variable set to t
Line(ml, i, t) ==
    FAdd(At(ml, 2 * i), FMul(t, FSub(At(ml, 2 * i + 1), At(ml, 2 * i))))

\* a prover round that sends the evaluation at 0 as well
sumcheck_round_from_zero(comp, mls) ==
    LET half == Len(mls[1]) \div 2
    IN [t \in 1 .. (max_degree(comp) + 1) |->
          SumSeq([i \in 1 .. half |->
                    evaluate(comp, [j \in 1 .. Len(mls) |->
                                      Line(mls[j], i - 1, FromInt(t - 1))]).val[1]])]

\* one prover round: the sums over the remaining hypercube of the composition
\* on the restrictions to the least-significant variable, at 1..max_degree
sumcheck_round(comp, mls) ==
    LET half == Len(mls[1]) \div 2
    IN [t \in 1 .. max_degree(comp) |->
          SumSeq([i \in 1 .. half |->
                    evaluate(comp, [j \in 1 .. Len(mls) |->
                                      Line(mls[j], i - 1, FromInt(t))]).val[1]])]

\* MultiLinear::bind: the least-significant variable bound to the challenge
bind(ml, round_challenge) ==
    [i \in 1 .. (Len(ml) \div 2) |-> Line(ml, i - 1, round_challenge)]

\* a coin whose answers do not depend on what was absorbed
CoinDraws_unseeded(transcript, r) == TRUE

\* the coin after the messages of transcript have been absorbed may answer
\* r: the answer is a function of the seed and of what was absorbed
CoinDraws(transcript, r) ==
    \A e \in oracle : e[1] = transcript => e[2] = r

\* the sum of the composition over the boolean hypercube
HypercubeSum(comp, mls) ==
    SumSeq([i \in 1 .. Len(mls[1]) |->
              evaluate(comp, [j \in 1 .. Len(mls) |-> mls[j][i]]).val[1]])

\* the vectors of length n with entries 0 or 1
Bits(n) == Vec({0, 1}, n)

Ones(mls) ==
    Cardinality({x \in (1 .. Len(mls)) \X (1 .. Len(mls[1])) :
                   mls[x[1]][x[2]] = ONE})

NoVerifier ==
    [pc |-> "wait", k |-> 0, eval_point |-> <<>>, claim |-> ZERO,
     round_ok |-> TRUE, result |-> "none",
     out |-> [evaluation_point |-> <<>>, openings |-> <<>>],
     proof_in |-> [pc |-> "none"]]

\* the runs of the sum-check tests: a composition, its multilinears over nu
\* variables, the claim the true sum (off = 0) or, for the product, the true
\* sum plus one (off = 1)
SCInit(off) ==
    \E comp \in Compositions, nu \in 1 .. MaxNu :
      \E mls \in Vec(Bits(Pow2(nu)), num_variables(comp)) :
        /\ off = 1 => comp = "product"
        /\ Ones(mls) <= MaxOnes
        /\ sc = [pc |-> "run", comp |-> comp, nu |-> nu, mls0 |-> mls,
                 off |-> off,
                 claim |-> FAdd(HypercubeSum(comp, mls), off)]
        /\ prover = [pc |-> "round", mls |-> mls, round_proofs |-> <<>>,
                     challenges |-> <<>>]
        /\ proof = [pc |-> "none"]
        /\ oracle = {}
        /\ verifier = NoVerifier

\* a prover round: the round proof is computed and absorbed, then the
\* challenge is drawn and the variable bound to it; after the last round the
\* multilinears are constants, the openings, and the proof is returned
ProveRound ==
    /\ prover.pc = "round"
    /\ Len(prover.round_proofs) < sc.nu
    /\ \E rp \in {sumcheck_round(sc.comp, prover.mls)}, r \in F :
         \E transcript \in {Append(prover.round_proofs, rp)},
            bound \in {[j \in 1 .. Len(prover.mls) |-> bind(prover.mls[j], r)]} :
           /\ CoinDraws(transcript, r)
           /\ oracle' = oracle \cup {<<transcript, r>>}
           /\ prover' = [prover EXCEPT
                           !.pc = IF Len(transcript) = sc.nu
                                  THEN "done" ELSE "round",
                           !.round_proofs = transcript,
                           !.challenges = Append(prover.challenges, r),
                           !.mls = bound]
           /\ proof' =
                IF Len(transcript) = sc.nu
                THEN [pc |-> "ready",
                      openings |-> [j \in 1 .. Len(bound) |-> At(bound[j], 0)],
                      round_proofs |-> transcript]
                ELSE proof
    /\ UNCHANGED <<eq, wire, poly, sc, verifier, circuit, gkr>>

\* verify(claim, proof, coin): the first round claim
VerifyStart ==
    /\ verifier.pc = "wait"
    /\ proof.pc = "ready"
    /\ verifier' = [verifier EXCEPT !.pc = "round", !.claim = sc.claim,
                                    !.proof_in = proof]
    /\ UNCHANGED <<eq, wire, poly, sc, prover, proof, oracle, circuit, gkr>>

\* a verifier round: the round proof is absorbed, the challenge drawn and
\* the claim reduced
VerifyRound ==
    /\ verifier.pc = "round"
    /\ verifier.k < Len(proof.round_proofs)
    /\ \E rp \in {proof.round_proofs[verifier.k + 1]},
          transcript \in {SubSeq(proof.round_proofs, 1, verifier.k + 1)} :
        \E r \in {x \in F : CoinDraws(transcript, x)} :
         \E s \in {to_evals(rp, verifier.claim)},
            rc \in {reduce_claim(max_degree(sc.comp), rp,
                                 [eval_point |-> verifier.eval_point,
                                  claim |-> verifier.claim], r)} :
           /\ oracle' = oracle \cup {<<transcript, r>>}
           /\ verifier' =
                IF rc.ok
                THEN [verifier EXCEPT
                        !.k = verifier.k + 1,
                        !.eval_point = rc.eval_point,
                        !.claim = rc.claim,
                        !.round_ok =
                           /\ verifier.round_ok
                           /\ FAdd(At(s.val, 0), At(s.val, 1))
                                = verifier.claim]
                ELSE [verifier EXCEPT !.pc = "abort"]
    /\ UNCHANGED <<eq, wire, poly, sc, prover, proof, circuit, gkr>>

\* after the last round: the composition on the query built from the
\* openings against the final claim
VerifyFinal ==
    /\ verifier.pc = "round"
    /\ verifier.k = Len(proof.round_proofs)
    /\ \E e \in {evaluate(sc.comp,
                          build_query(proof.openings, verifier.eval_point))} :
         verifier' =
           IF ~e.ok THEN [verifier EXCEPT !.pc = "abort"]
           ELSE IF e.val[1] # verifier.claim
           THEN [verifier EXCEPT !.pc = "done",
                                 !.result = "FinalEvaluationCheckFailed"]
           ELSE [verifier EXCEPT
                   !.pc = "done", !.result = "Ok",
                   !.out = [evaluation_point |-> verifier.eval_point,
                            openings |-> proof.openings]]
    /\ UNCHANGED <<eq, wire, poly, sc, prover, proof, oracle, circuit, gkr>>

InitSC ==
    /\ SCInit(0)
    /\ eq = Idle /\ wire = Idle /\ poly = Idle
    /\ circuit = Idle /\ gkr = Idle

InitSCOff ==
    /\ SCInit(1)
    /\ eq = Idle /\ wire = Idle /\ poly = Idle
    /\ circuit = Idle /\ gkr = Idle

NextSC ==
    \/ ProveRound
    \/ VerifyStart
    \/ VerifyRound
    \/ VerifyFinal

\* the runs with the true sum as the claim
SpecSC == InitSC /\ [][NextSC]_vars

\* the runs of the product with the true sum plus one as the claim
SpecSCOff == InitSCOff /\ [][NextSC]_vars

\* the verifier alone, on the proofs a prover of any kind may send: any
\* number of round proofs, each empty or of the length of the degree bound,
\* and any openings and claim
VInit ==
    \E comp \in Compositions, rounds \in 0 .. MaxRoundsV :
      \E rps \in Vec({<<>>} \cup Bits(max_degree(comp)), rounds),
         openings \in Bits(num_variables(comp)), claim \in {0, 1} :
        /\ sc = [pc |-> "run", comp |-> comp, nu |-> rounds, mls0 |-> <<>>,
                 off |-> 0, claim |-> claim]
        /\ proof = [pc |-> "ready", openings |-> openings,
                    round_proofs |-> rps]
        /\ prover = Idle
        /\ oracle = {}
        /\ verifier = NoVerifier

InitV ==
    /\ VInit
    /\ eq = Idle /\ wire = Idle /\ poly = Idle
    /\ circuit = Idle /\ gkr = Idle

NextV ==
    \/ VerifyStart
    \/ VerifyRound
    \/ VerifyFinal

SpecV == InitV /\ [][NextV]_vars

\* the challenges of the run that are interpolation nodes 1..max_degree of
\* the round polynomial
NodeChallenges ==
    {k \in 1 .. Len(prover.challenges) :
       \E t \in 1 .. max_degree(sc.comp) : prover.challenges[k] = FromInt(t)}

\* C1: prove, then verify on the same seed, with the claim the true sum:
\* neither aborts, verify returns Ok, and the FinalOpeningClaim has the nu
\* round challenges, in round order, as its evaluation point and the
\* evaluations of the input multilinears at that point as its openings.
C1_Completeness ==
    sc.pc = "run" /\ sc.off = 0 =>
      /\ verifier.pc # "abort"
      /\ proof.pc = "ready" =>
           /\ Len(proof.round_proofs) = sc.nu
           /\ \A k \in 1 .. sc.nu :
                Len(proof.round_proofs[k]) = max_degree(sc.comp)
      /\ verifier.pc = "done" =>
           /\ verifier.result = "Ok"
           /\ Len(verifier.out.evaluation_point) = sc.nu
           /\ verifier.out.evaluation_point = prover.challenges
           /\ Len(verifier.out.openings) = num_variables(sc.comp)
           /\ \A j \in 1 .. num_variables(sc.comp) :
                verifier.out.openings[j] =
                  MLE(sc.mls0[j], verifier.out.evaluation_point)

\* a product over two variables with a nonzero sum, verified at a point
\* whose coordinates differ and are not boolean
C1_Witness ==
    /\ sc.pc = "run" /\ sc.off = 0 /\ sc.comp = "product" /\ sc.nu = 2
    /\ sc.claim # ZERO
    /\ verifier.pc = "done" /\ verifier.result = "Ok"
    /\ verifier.out.evaluation_point = <<3, 2>>

\* C2 as stated: with the claim the true sum of the product plus one, verify
\* returns an error whatever the challenges are.
C2_AlwaysRejects ==
    (sc.pc = "run" /\ sc.off = 1 /\ verifier.pc = "done")
      => verifier.result # "Ok"

\* C2 as amended: with the claim the true sum of the product plus one,
\* verify does not abort, and it returns an error exactly when no round
\* challenge is one of the interpolation nodes 1, 2 of the round polynomial.
C2_RejectsOffNodes ==
    sc.pc = "run" /\ sc.off = 1 =>
      /\ verifier.pc # "abort"
      /\ verifier.pc = "done" =>
           /\ verifier.result \in {"Ok", "FinalEvaluationCheckFailed"}
           /\ (verifier.result = "FinalEvaluationCheckFailed")
                <=> (NodeChallenges = {})

\* the incremented claim of a product over two variables is rejected, the
\* challenges being off the nodes
C2_Witness ==
    /\ sc.pc = "run" /\ sc.off = 1 /\ sc.comp = "product" /\ sc.nu = 2
    /\ verifier.pc = "done"
    /\ verifier.result = "FinalEvaluationCheckFailed"
    /\ prover.challenges = <<3, 4>>

\* C7: whatever the proof, the verifier does not abort.
C7_VerifierNeverAborts ==
    sc.pc = "run" => verifier.pc # "abort"

\* the composition on the openings, written out
OnOpenings(comp, openings) ==
    IF comp = "projection" THEN openings[1]
    ELSE FMul(openings[1], openings[2])

C8_WitnessOk ==
    /\ sc.pc = "run" /\ sc.comp = "product"
    /\ verifier.pc = "done" /\ verifier.k = 2
    /\ verifier.result = "Ok"

(***************************************************************************)
(* circuit/mod.rs: the input layer of the fraction circuit                 *)
(***************************************************************************)

\* the number of wires of the input layer that come from one main trace row
NUM_WIRES_PER_TRACE_ROW == 8

\* the columns of a main trace row (a "query") that the input layer reads:
\* query[M_COL_IDX], query[CHIPLETS_OFFSET + 0..2],
\* query[DECODER_OP_BITS_OFFSET + 4..6], query[V_COL_IDX],
\* query[MEMORY_D0_COL_IDX], query[MEMORY_D1_COL_IDX] and
\* query[DECODER_USER_OP_HELPERS_OFFSET + 0..3]
Query(multiplicity, mem_selec, op_bits, v, memory_d, helpers) ==
    [multiplicity |-> multiplicity,
     mem_selec0 |-> mem_selec[1], mem_selec1 |-> mem_selec[2],
     mem_selec2 |-> mem_selec[3],
     op_bit_4 |-> op_bits[1], op_bit_5 |-> op_bits[2], op_bit_6 |-> op_bits[3],
     v |-> v,
     memory_d0 |-> memory_d[1], memory_d1 |-> memory_d[2],
     helper0 |-> helpers[1], helper1 |-> helpers[2],
     helper2 |-> helpers[3], helper3 |-> helpers[4]]

\* the fractions with the memory selector product missing its last factor
evaluate_fractions_at_main_trace_query_slip(query, log_up_randomness) ==
    LET multiplicity == query.multiplicity
        f_m == FMul(query.mem_selec0, query.mem_selec1)
        f_rc == FMul(FMul(FSub(ONE, query.op_bit_4), FSub(ONE, query.op_bit_5)),
                     query.op_bit_6)
        alphas == log_up_randomness
    IN << <<multiplicity, f_m, f_m, f_rc, f_rc, f_rc, f_rc, ZERO>>,
          <<FSub(At(alphas, 0), query.v),
            FNeg(FSub(At(alphas, 0), query.memory_d0)),
            FNeg(FSub(At(alphas, 0), query.memory_d1)),
            FNeg(FSub(At(alphas, 0), query.helper0)),
            FNeg(FSub(At(alphas, 0), query.helper1)),
            FNeg(FSub(At(alphas, 0), query.helper2)),
            FNeg(FSub(At(alphas, 0), query.helper3)),
            ONE>> >>

\* the fractions with the padding wire taken to be 1/1
evaluate_fractions_at_main_trace_query_pad(query, log_up_randomness) ==
    LET multiplicity == query.multiplicity
        f_m == FMul(FMul(query.mem_selec0, query.mem_selec1),
                    FSub(ONE, query.mem_selec2))
        f_rc == FMul(FMul(FSub(ONE, query.op_bit_4), FSub(ONE, query.op_bit_5)),
                     query.op_bit_6)
        alphas == log_up_randomness
    IN << <<multiplicity, f_m, f_m, f_rc, f_rc, f_rc, f_rc, ONE>>,
          <<FSub(At(alphas, 0), query.v),
            FNeg(FSub(At(alphas, 0), query.memory_d0)),
            FNeg(FSub(At(alphas, 0), query.memory_d1)),
            FNeg(FSub(At(alphas, 0), query.helper0)),
            FNeg(FSub(At(alphas, 0), query.helper1)),
            FNeg(FSub(At(alphas, 0), query.helper2)),
            FNeg(FSub(At(alphas, 0), query.helper3)),
            ONE>> >>

\* evaluate_fractions_at_main_trace_query: [numerators, denominators]
evaluate_fractions_at_main_trace_query(query, log_up_randomness) ==
    LET multiplicity == query.multiplicity
        f_m == FMul(FMul(query.mem_selec0, query.mem_selec1),
                    FSub(ONE, query.mem_selec2))
        f_rc == FMul(FMul(FSub(ONE, query.op_bit_4), FSub(ONE, query.op_bit_5)),
                     query.op_bit_6)
        alphas == log_up_randomness
        table_denom == FSub(At(alphas, 0), query.v)
        memory_denom_0 == FNeg(FSub(At(alphas, 0), query.memory_d0))
        memory_denom_1 == FNeg(FSub(At(alphas, 0), query.memory_d1))
        stack_value_denom_0 == FNeg(FSub(At(alphas, 0), query.helper0))
        stack_value_denom_1 == FNeg(FSub(At(alphas, 0), query.helper1))
        stack_value_denom_2 == FNeg(FSub(At(alphas, 0), query.helper2))
        stack_value_denom_3 == FNeg(FSub(At(alphas, 0), query.helper3))
    IN << <<multiplicity, f_m, f_m, f_rc, f_rc, f_rc, f_rc, ZERO>>,
          <<table_denom, memory_denom_0, memory_denom_1,
            stack_value_denom_0, stack_value_denom_1,
            stack_value_denom_2, stack_value_denom_3, ONE>> >>

\* what compute_input_layer_wires_at_main_trace_query leaves when a
\* CircuitWire::new inside it panics
NoWires == [ok |-> FALSE, val |-> <<>>]

\* the wires of a row made without the assertion of CircuitWire::new
compute_input_layer_wires_at_main_trace_query_unchecked(query, log_up_randomness) ==
    LET fractions == evaluate_fractions_at_main_trace_query(query,
                                                            log_up_randomness)
    IN [ok |-> TRUE,
        val |-> [k \in 1 .. Len(fractions[1]) |->
                   CircuitWire_new_unchecked(fractions[1][k], fractions[2][k])]]

\* compute_input_layer_wires_at_main_trace_query: the numerators zipped with
\* the denominators, each pair through CircuitWire::new
compute_input_layer_wires_at_main_trace_query(query, log_up_randomness) ==
    LET fractions == evaluate_fractions_at_main_trace_query(query,
                                                            log_up_randomness)
        input_gates_values ==
            [k \in 1 .. Len(fractions[1]) |->
               CircuitWire_new(fractions[1][k], fractions[2][k])]
    IN IF \E k \in 1 .. Len(input_gates_values) : ~input_gates_values[k].ok
       THEN NoWires
       ELSE IF Len(input_gates_values) # NUM_WIRES_PER_TRACE_ROW
       THEN NoWires
       ELSE [ok |-> TRUE, val |-> input_gates_values]

(***************************************************************************)
(* The fractions machine: a query with arbitrary multiplicity and selector *)
(* and op-bit columns is given; its fractions are evaluated.               *)
(***************************************************************************)

\* the values of the selector and op-bit columns: 0, 1 and one value that
\* is not a bit
BitColumnValues == {0, 1, 2}

\* the values of the looked-up columns and of alphas[0]
LookupValues == {0, 1}

FractionsAlphas == {0, 2}

NoFractions == << <<>>, <<>> >>

FractionsInit ==
    \E multiplicity \in F, mem_selec \in Vec(BitColumnValues, 3),
       op_bits \in Vec(BitColumnValues, 3) :
      \E v \in LookupValues, w \in LookupValues, alpha \in FractionsAlphas :
        circuit = [pc |-> "query",
                   alphas |-> <<alpha>>,
                   query |-> Query(multiplicity, mem_selec, op_bits, v,
                                   <<w, w>>, <<w, w, w, w>>),
                   fractions |-> NoFractions]

EvaluateFractions ==
    /\ circuit.pc = "query"
    /\ circuit' = [circuit EXCEPT
                     !.pc = "fractions",
                     !.fractions = evaluate_fractions_at_main_trace_query(
                                     circuit.query, circuit.alphas)]
    /\ UNCHANGED <<eq, wire, poly, sc, prover, proof, oracle, verifier, gkr>>

InitFractions ==
    /\ FractionsInit
    /\ eq = Idle /\ wire = Idle /\ poly = Idle /\ sc = Idle /\ prover = Idle
    /\ proof = Idle /\ oracle = {} /\ verifier = Idle /\ gkr = Idle

NextFractions == EvaluateFractions

SpecFractions == InitFractions /\ [][NextFractions]_vars

\* the selector and op-bit columns of the query are 0/1-valued
BitColumnsBoolean(query) ==
    /\ {query.mem_selec0, query.mem_selec1, query.mem_selec2} \subseteq {0, 1}
    /\ {query.op_bit_4, query.op_bit_5, query.op_bit_6} \subseteq {0, 1}

\* C18 as stated: for a row whose memory-selector and op-bit columns are
\* 0/1-valued, each of the 8 numerators is 0 or 1.
C18_NumeratorsBoolean ==
    (circuit.pc = "fractions" /\ BitColumnsBoolean(circuit.query)) =>
      \A k \in 1 .. NUM_WIRES_PER_TRACE_ROW :
        circuit.fractions[1][k] \in {ZERO, ONE}

\* C18 as amended: for a row whose memory-selector and op-bit columns are
\* 0/1-valued, the first numerator is the multiplicity column of the row,
\* whatever its value; the second and third are 1 if the memory selectors
\* are (1, 1, 0) and 0 otherwise; the fourth to seventh are 1 if the op bits
\* 4, 5, 6 are (0, 0, 1) and 0 otherwise; the eighth is 0.
C18_SelectorNumerators ==
    (circuit.pc = "fractions" /\ BitColumnsBoolean(circuit.query)) =>
      LET numerators == circuit.fractions[1]
          query == circuit.query
          memory == /\ query.mem_selec0 = 1 /\ query.mem_selec1 = 1
                    /\ query.mem_selec2 = 0
          range == /\ query.op_bit_4 = 0 /\ query.op_bit_5 = 0
                   /\ query.op_bit_6 = 1
      IN /\ Len(numerators) = NUM_WIRES_PER_TRACE_ROW
         /\ Len(circuit.fractions[2]) = NUM_WIRES_PER_TRACE_ROW
         /\ numerators[1] = query.multiplicity
         /\ \A k \in 2 .. 3 : numerators[k] = IF memory THEN ONE ELSE ZERO
         /\ \A k \in 4 .. 7 : numerators[k] = IF range THEN ONE ELSE ZERO
         /\ numerators[8] = ZERO

\* a memory row with all three selectors set, of multiplicity 3: the memory
\* numerators are 0, the first numerator is 3
C18_Witness ==
    /\ circuit.pc = "fractions"
    /\ BitColumnsBoolean(circuit.query)
    /\ circuit.query.mem_selec0 = 1 /\ circuit.query.mem_selec1 = 1
    /\ circuit.query.mem_selec2 = 1
    /\ circuit.query.op_bit_6 = 1 /\ circuit.query.op_bit_4 = 0
    /\ circuit.query.op_bit_5 = 0
    /\ circuit.fractions[1] = <<3, 0, 0, 1, 1, 1, 1, 0>>

(***************************************************************************)
(* The circuit machine (circuit/prover): the input layer is built row by   *)
(* row from the main trace with compute_input_layer_wires_at_main_trace_   *)
(* query, then every next layer by adding the wires of the layer before it *)
(* in pairs, until a layer of one wire is left.  A panic ends the run.     *)
(***************************************************************************)

\* the bound of the circuit machine: the trace has 2^log_rows rows,
\* log_rows <= MaxLogRows
MaxLogRows == 1

RowKinds == {"memory", "range_check"}

\* a row of multiplicity 2 where the memory lookups or the range-check
\* lookups fire, v in the table column and w in the looked-up columns
TraceRowOf(kind, v, w) ==
    Query(FromInt(2),
          IF kind = "memory" THEN <<1, 1, 0>> ELSE <<0, 0, 0>>,
          IF kind = "range_check" THEN <<0, 0, 1>> ELSE <<0, 0, 0>>,
          v, <<w, w>>, <<w, w, w, w>>)

TraceRows ==
    {TraceRowOf(kind, v, w) :
       kind \in RowKinds, v \in LookupValues, w \in LookupValues}

NoQuery == Query(ZERO, <<0, 0, 0>>, <<0, 0, 0>>, ZERO, <<0, 0>>, <<0, 0, 0, 0>>)

\* the next layer with every wire added to its right neighbour, the pairs
\* overlapping
NextLayer_overlapping(layer) ==
    [i \in 1 .. (Len(layer) - 1) |-> CircuitWire_add(layer[i], layer[i + 1])]

\* the next layer: the wires at the even and at the odd indices of the
\* layer (project_least_significant_variable), added in pairs
NextLayer(layer) ==
    [i \in 1 .. (Len(layer) \div 2) |->
       CircuitWire_add(At(layer, 2 * (i - 1)), At(layer, 2 * (i - 1) + 1))]

\* CircuitLayerPolys: the numerators and the denominators of a layer
CircuitLayerPolys(layer) ==
    [numerators |-> [i \in 1 .. Len(layer) |-> layer[i].numerator],
     denominators |-> [i \in 1 .. Len(layer) |-> layer[i].denominator]]

CircuitInit ==
    \E alpha \in F, log_rows \in 0 .. MaxLogRows :
      circuit = [pc |-> "input", alphas |-> <<alpha>>, log_rows |-> log_rows,
                 rows |-> 0, query |-> NoQuery, layers |-> << <<>> >>]

\* the wires of the next row of the trace are added to the input layer
CircuitInputRow ==
    /\ circuit.pc = "input"
    /\ circuit.rows < Pow2(circuit.log_rows)
    /\ \E query \in TraceRows :
         \E wires \in {compute_input_layer_wires_at_main_trace_query(
                         query, circuit.alphas)} :
           circuit' =
             IF ~wires.ok
             THEN [circuit EXCEPT !.pc = "abort_input", !.query = query]
             ELSE [circuit EXCEPT
                     !.pc = IF circuit.rows + 1 = Pow2(circuit.log_rows)
                            THEN "reduce" ELSE "input",
                     !.rows = circuit.rows + 1,
                     !.query = query,
                     !.layers = <<circuit.layers[1] \o wires.val>>]
    /\ UNCHANGED <<eq, wire, poly, sc, prover, proof, oracle, verifier, gkr>>

\* the next layer is built from the last one
CircuitReduceLayer ==
    /\ circuit.pc = "reduce"
    /\ \E next \in {NextLayer(circuit.layers[Len(circuit.layers)])} :
         circuit' =
           IF \E i \in 1 .. Len(next) : ~next[i].ok
           THEN [circuit EXCEPT !.pc = "abort_add"]
           ELSE [circuit EXCEPT
                   !.pc = IF Len(next) <= 1 THEN "done" ELSE "reduce",
                   !.layers = Append(circuit.layers, next)]
    /\ UNCHANGED <<eq, wire, poly, sc, prover, proof, oracle, verifier, gkr>>

InitCircuit ==
    /\ CircuitInit
    /\ eq = Idle /\ wire = Idle /\ poly = Idle /\ sc = Idle /\ prover = Idle
    /\ proof = Idle /\ oracle = {} /\ verifier = Idle /\ gkr = Idle

NextCircuit == CircuitInputRow \/ CircuitReduceLayer

SpecCircuit == InitCircuit /\ [][NextCircuit]_vars

\* the denominators the input layer derives from a row
DerivedDenominators(query, alphas) ==
    {FSub(alphas[1], x) :
       x \in {query.v, query.memory_d0, query.memory_d1, query.helper0,
              query.helper1, query.helper2, query.helper3}}

\* C11: every wire of every layer has a nonzero denominator; the input layer
\* aborts on a row, and adds no wire for it, exactly when a denominator
\* derived from the row is zero; the addition of two wires of a layer never
\* aborts.
C11_NonzeroDenominators ==
    circuit.pc \in {"input", "reduce", "done", "abort_input", "abort_add"} =>
      /\ \A l \in 1 .. Len(circuit.layers) :
           \A i \in 1 .. Len(circuit.layers[l]) :
             /\ circuit.layers[l][i].ok
             /\ circuit.layers[l][i].denominator # ZERO
      /\ Len(circuit.layers[1]) = NUM_WIRES_PER_TRACE_ROW * circuit.rows
      /\ (circuit.rows > 0 \/ circuit.pc = "abort_input") =>
           ((circuit.pc = "abort_input")
              <=> (ZERO \in DerivedDenominators(circuit.query,
                                                circuit.alphas)))
      /\ circuit.pc # "abort_add"

\* the second row of a trace has alphas[0] in a looked-up column of a lookup
\* that does not fire, and the input layer aborts
C11_Witness ==
    /\ circuit.pc = "abort_input"
    /\ circuit.rows = 1
    /\ circuit.alphas = <<1>>
    /\ circuit.query = TraceRowOf("range_check", 1, 0)

\* ... and a circuit of two rows has been reduced to its output
C11_WitnessDone ==
    /\ circuit.pc = "done"
    /\ circuit.rows = 2
    /\ circuit.layers[Len(circuit.layers)][1].numerator # ZERO

\* log2 of a power of two
RECURSIVE Log2(_)
Log2(n) == IF n <= 1 THEN 0 ELSE 1 + Log2(n \div 2)

\* C19: the input layer has 8 * row_count wires; every next layer has half
\* the length of the one before it; the numerators and the denominators of
\* a layer have the same length; the reduction goes on while the last layer
\* has more than one wire and stops when it has one; there are then
\* log2(8 * row_count) layers above the input layer.
C19_LayerShape ==
    circuit.pc \in {"reduce", "done", "abort_add"} =>
      LET row_count == Pow2(circuit.log_rows)
          n == Len(circuit.layers)
      IN /\ Len(circuit.layers[1]) = NUM_WIRES_PER_TRACE_ROW * row_count
         /\ \A l \in 2 .. n :
              2 * Len(circuit.layers[l]) = Len(circuit.layers[l - 1])
         /\ \A l \in 1 .. n :
              /\ Len(CircuitLayerPolys(circuit.layers[l]).numerators)
                   = Len(circuit.layers[l])
              /\ Len(CircuitLayerPolys(circuit.layers[l]).denominators)
                   = Len(circuit.layers[l])
         /\ circuit.pc = "reduce" => Len(circuit.layers[n]) > 1
         /\ circuit.pc = "done" =>
              /\ Len(circuit.layers[n]) = 1
              /\ n - 1 = Log2(NUM_WIRES_PER_TRACE_ROW * row_count)
         /\ circuit.pc # "abort_add"

\* a trace of two rows: four layers above the 16 wires of the input layer
C19_Witness ==
    /\ circuit.pc = "done"
    /\ circuit.log_rows = 1
    /\ Len(circuit.layers) = 5
    /\ Len(circuit.layers[1]) = 16
    /\ Len(circuit.layers[5]) = 1

\* the sum of the fractions of the wires of a layer
RatioSum(layer) == SumSeq([i \in 1 .. Len(layer) |-> Ratio(layer[i])])

\* the wires of the input layer without the eighth wire of every row
WithoutPadding(layer) ==
    SelectSeq([i \in 1 .. Len(layer) |->
                 IF i % NUM_WIRES_PER_TRACE_ROW = 0
                 THEN [layer[i] EXCEPT !.ok = FALSE] ELSE layer[i]],
              LAMBDA w : w.ok)

\* C20: the wire (n, d) of the last layer has n/d the sum of the n_i/d_i of
\* the wires of the input layer; the eighth wire of every row is (0, 1) and
\* the sum is that of the other wires.
C20_CircuitOutput ==
    circuit.pc = "done" =>
      LET input == circuit.layers[1]
          output == circuit.layers[Len(circuit.layers)][1]
      IN /\ output.denominator # ZERO
         /\ Ratio(output) = RatioSum(input)
         /\ \A i \in 1 .. Len(input) :
              i % NUM_WIRES_PER_TRACE_ROW = 0 =>
                /\ input[i].numerator = ZERO
                /\ input[i].denominator = ONE
         /\ Len(WithoutPadding(input)) = Len(input) - circuit.rows
         /\ Ratio(output) = RatioSum(WithoutPadding(input))

\* two rows of different kinds, with different table and looked-up values,
\* and a nonzero output
C20_Witness ==
    /\ circuit.pc = "done"
    /\ circuit.rows = 2
    /\ circuit.alphas = <<3>>
    /\ circuit.query = TraceRowOf("range_check", 0, 1)
    /\ circuit.layers[1][2].numerator = ONE
    /\ Ratio(circuit.layers[Len(circuit.layers)][1]) # ZERO

(***************************************************************************)
(* multilinear/lagrange_ker.rs: EqFunction::evaluate                       *)
(***************************************************************************)

\* the fold of EqFunction::evaluate over i in 0..self.r.len():
\*   .map(|i| r[i] * t[i] + (ONE - r[i]) * (ONE - t[i]))
\*   .fold(ONE, |acc, term| acc * term)
RECURSIVE EqFold(_, _, _, _)
EqFold(acc, r, t, i) ==
    IF i >= Len(r) THEN acc
    ELSE LET term == FAdd(FMul(At(r, i), At(t, i)),
                          FMul(FSub(ONE, At(r, i)), FSub(ONE, At(t, i))))
         IN EqFold(FMul(acc, term), r, t, i + 1)

\* what EqFunction::evaluate leaves when its assertion fails
DimensionMismatch == [ok |-> FALSE, val |-> ZERO]

\* EqFunction::evaluate without its assertion: t[i] is out of bounds when t
\* is the shorter, and the coordinates of t beyond those of r are not read
EqFunction_evaluate_unchecked(r, t) ==
    IF Len(t) < Len(r) THEN DimensionMismatch
    ELSE [ok |-> TRUE, val |-> EqFold(ONE, r, t, 0)]

\* EqFunction::evaluate of EqFunction::new(r):
\*   assert_eq!(self.r.len(), t.len()), then the fold
EqFunction_evaluate(r, t) ==
    IF Len(r) # Len(t) THEN DimensionMismatch
    ELSE [ok |-> TRUE, val |-> EqFold(ONE, r, t, 0)]

(***************************************************************************)
(* The evaluation machine: EqFunction::new(r), with r of dimension at most *)
(* MaxNuEq, is evaluated at a point t of a dimension of its own.           *)
(***************************************************************************)
EqEvalInit ==
    \E nu \in 0 .. MaxNuEq, mu \in 0 .. MaxNuEq :
      \E r \in Vec(F, nu), t \in Vec(F, mu) :
        eq = [pc |-> "new", r |-> r, t |-> t, out |-> DimensionMismatch]

EqEvaluate ==
    /\ eq.pc = "new"
    /\ eq' = [eq EXCEPT !.pc = "evaluated",
                        !.out = EqFunction_evaluate(eq.r, eq.t)]
    /\ UNCHANGED <<wire, poly, sc, prover, proof, oracle, verifier,
                   circuit, gkr>>

InitEqEval ==
    /\ EqEvalInit
    /\ wire = Idle /\ poly = Idle /\ sc = Idle /\ prover = Idle
    /\ proof = Idle /\ oracle = {} /\ verifier = Idle
    /\ circuit = Idle /\ gkr = Idle

NextEqEval == EqEvaluate

SpecEqEval == InitEqEval /\ [][NextEqEval]_vars

\* the index of the boolean point t in the kernel, t_0 its lowest bit
RECURSIVE BoolIndexFrom(_, _)
BoolIndexFrom(t, k) ==
    IF k > Len(t) THEN 0 ELSE t[k] * Pow2(k - 1) + BoolIndexFrom(t, k + 1)

BoolIndex(t) == BoolIndexFrom(t, 1)

\* C12: EqFunction::evaluate fails, and gives no value, exactly when r and t
\* differ in length; otherwise it gives prod_i (r_i*t_i + (1-r_i)*(1-t_i)),
\* which is 1 for the empty point, on boolean r and t is 1 if r = t and 0
\* otherwise, and on boolean t is the entry of the kernel at r at the index
\* of t.
C12_EqEvaluate ==
    eq.pc = "evaluated" =>
      /\ ~eq.out.ok <=> Len(eq.r) # Len(eq.t)
      /\ ~eq.out.ok => eq.out = DimensionMismatch
      /\ eq.out.ok =>
           /\ eq.out.val =
                ProdSeq([i \in 1 .. Len(eq.r) |->
                           FAdd(FMul(eq.r[i], eq.t[i]),
                                FMul(FSub(ONE, eq.r[i]), FSub(ONE, eq.t[i])))])
           /\ Len(eq.r) = 0 => eq.out.val = ONE
           /\ (\A i \in 1 .. Len(eq.r) : eq.r[i] \in {0, 1} /\ eq.t[i] \in {0, 1})
                => eq.out.val = IF eq.r = eq.t THEN ONE ELSE ZERO
           /\ (\A i \in 1 .. Len(eq.t) : eq.t[i] \in {0, 1})
                => eq.out.val = At(EqEvaluations(eq.r), BoolIndex(eq.t))

\* a point of dimension 2 evaluated at a point of dimension 1: a failure
C12_Witness ==
    /\ eq.pc = "evaluated"
    /\ eq.r = <<2, 3>> /\ eq.t = <<2>>
    /\ ~eq.out.ok

\* ... and at a point of its own dimension: a value
C12_WitnessValue ==
    /\ eq.pc = "evaluated"
    /\ eq.r = <<2, 3>> /\ eq.t = <<4, 1>>
    /\ eq.out.ok /\ eq.out.val = FMul(FAdd(FMul(2, 4), FMul(4, 2)), 3)

(***************************************************************************)
(* The rounds of a sum-check instance and its coin                         *)
(***************************************************************************)

\* the runs followed to their end: every input multilinear is the indicator
\* of one and the same point of the hypercube
InitSCLive ==
    /\ InitSC
    /\ \E a \in 1 .. Pow2(sc.nu) :
         \A j \in 1 .. Len(sc.mls0) :
           sc.mls0[j] = [i \in 1 .. Pow2(sc.nu) |-> IF i = a THEN ONE ELSE ZERO]

\* prove and verify are sequential loops: a step that can be taken is taken
SpecSCLive == InitSCLive /\ [][NextSC]_vars /\ WF_vars(NextSC)

\* the evaluation at 1 of the first round polynomial: the sum of the
\* composition over the points of the hypercube whose lowest variable is 1
FirstRoundAtOne ==
    SumSeq([i \in 1 .. (Len(sc.mls0[1]) \div 2) |->
              evaluate(sc.comp, [j \in 1 .. Len(sc.mls0) |->
                                   At(sc.mls0[j], 2 * (i - 1) + 1)]).val[1]])

\* the rounds of the prover and of the verifier advance one at a time
RoundsAdvance ==
    /\ Len(prover'.round_proofs) \in {Len(prover.round_proofs),
                                      Len(prover.round_proofs) + 1}
    /\ verifier'.k \in {verifier.k, verifier.k + 1}
    /\ verifier.pc = "done" => verifier' = verifier
    /\ prover.pc = "done" => prover' = prover
    /\ \A k \in 1 .. Len(prover.round_proofs) :
         prover'.round_proofs[k] = prover.round_proofs[k]

\* the shape of the rounds made so far and of the proof
RoundsShape ==
    /\ Len(prover.round_proofs) <= sc.nu
    /\ Len(prover.challenges) = Len(prover.round_proofs)
    /\ \A k \in 1 .. Len(prover.round_proofs) :
         Len(prover.round_proofs[k]) = max_degree(sc.comp)
    /\ Len(prover.round_proofs) >= 1 =>
         prover.round_proofs[1][1] = FirstRoundAtOne
    /\ (prover.pc = "done") <=> (Len(prover.round_proofs) = sc.nu)
    /\ (proof.pc = "ready") <=> (prover.pc = "done")
    /\ proof.pc = "ready" => proof.round_proofs = prover.round_proofs
    /\ verifier.k <= sc.nu
    /\ Len(verifier.eval_point) = verifier.k
    /\ verifier.pc = "done" => verifier.k = sc.nu
    /\ verifier.pc # "abort"

\* C13: an instance over nu variables goes through its rounds one at a time,
\* none skipped and none repeated; it always reaches the final opening, after
\* exactly nu rounds; the proof holds exactly nu round proofs, each of
\* max_degree(composition) evaluations, the first of them the evaluation at
\* 1.
C13_RoundProgression ==
    /\ [][RoundsAdvance]_vars
    /\ [](RoundsShape)
    /\ <>[](/\ proof.pc = "ready" /\ Len(proof.round_proofs) = sc.nu
            /\ verifier.pc = "done" /\ verifier.k = sc.nu)

\* the second of two rounds of a product has been verified
C13_Witness ==
    /\ sc.comp = "product" /\ sc.nu = 2
    /\ verifier.pc = "round" /\ verifier.k = 2
    /\ Len(proof.round_proofs) = 2
    /\ proof.round_proofs[1] # <<ZERO, ZERO>>

\* C14: a round challenge is the answer of the coin to the round proofs
\* absorbed up to and with the one it answers; the answers of the coin are a
\* function of what was absorbed; the verifier, absorbing the round proofs of
\* the proof in order, obtains the challenges of the prover.
C14_FiatShamir ==
    sc.pc = "run" =>
      /\ Len(prover.challenges) <= Len(prover.round_proofs)
      /\ \A k \in 1 .. Len(prover.challenges) :
           <<SubSeq(prover.round_proofs, 1, k), prover.challenges[k]>>
             \in oracle
      /\ \A e1 \in oracle, e2 \in oracle : e1[1] = e2[1] => e1[2] = e2[2]
      /\ \A e \in oracle : Len(e[1]) >= 1
      /\ Len(verifier.eval_point) <= Len(prover.challenges)
      /\ \A k \in 1 .. Len(verifier.eval_point) :
           verifier.eval_point[k] = prover.challenges[k]

\* the verifier has redrawn the first of the two challenges of the prover
C14_Witness ==
    /\ sc.pc = "run" /\ sc.nu = 2
    /\ prover.challenges = <<4, 1>>
    /\ verifier.pc = "round" /\ verifier.eval_point = <<4>>
    /\ Cardinality(oracle) = 2

(***************************************************************************)
(* univariate.rs: the coefficient form                                     *)
(***************************************************************************)

\* C16: for partial_evaluations e of length d >= 1 and every claim, to_poly
\* gives exactly d coefficients c0, c2, ..., cd: c0 = claim - e[0], and with
\* the linear coefficient c1 = claim - (sum of the stored coefficients) - c0
\* put back they are the coefficients of the polynomial p of degree at most
\* d with p(0) = c0 and p(i) = e[i-1]; evaluate_using_claim evaluates that
\* polynomial.
C16_CoefficientForm ==
    (poly.pc \in {"coef", "codec_done"} /\ PolyDeg >= 1) =>
      LET e == poly.partial_evals
          c == poly.coef.val
          c1 == FSub(FSub(poly.claim, SumSeq(c)), c[1])
          complete == <<c[1], c1>> \o Tail(c)
      IN /\ poly.coef.ok
         /\ Len(e) = PolyDeg
         /\ Len(c) = PolyDeg
         /\ c[1] = FSub(poly.claim, e[1])
         /\ eval(complete, ZERO) = c[1]
         /\ \A i \in 1 .. PolyDeg : eval(complete, FromInt(i)) = e[i]
         /\ complete = poly.p
         /\ poly.pc = "codec_done" =>
              poly.y = [ok |-> TRUE, val |-> <<eval(complete, poly.r)>>]

\* the coefficient form of a cubic: the linear coefficient 1 is left out
C16_Witness ==
    /\ poly.pc = "coef"
    /\ poly.p = <<2, 1, 3, 4>>
    /\ poly.coef.val = <<2, 3, 4>>
    /\ poly.partial_evals = <<0, 3, 0>>

(***************************************************************************)
(* The reduction machine: a running claim with an evaluation-point prefix  *)
(* is reduced round after round by reduce_claim, each round on a round     *)
(* proof of the degree of the run and a challenge.                         *)
(***************************************************************************)

\* the values of the entries of the round proofs
RoundProofValues == {1, 3}

\* the evaluation-point prefixes the reduction starts from
Prefixes == {<<>>, <<2>>}

ReduceInit ==
    \E d \in 1 .. MaxDeg, prefix \in Prefixes, claim \in F :
      sc = [pc |-> "reduce", d |-> d, prefix |-> prefix, k |-> 0,
            challenges |-> <<>>,
            before |-> [eval_point |-> prefix, claim |-> claim],
            round_proof |-> <<>>,
            round_claim |-> [ok |-> TRUE, eval_point |-> prefix,
                             claim |-> claim]]

ReduceRound ==
    /\ sc.pc = "reduce"
    /\ sc.k < MaxRoundsV
    /\ \E current_poly \in Vec(RoundProofValues, sc.d), round_challenge \in F :
         \E current \in {[eval_point |-> sc.round_claim.eval_point,
                         claim |-> sc.round_claim.claim]} :
           \E next \in {reduce_claim(sc.d, current_poly, current,
                                     round_challenge)} :
             sc' = [sc EXCEPT
                      !.pc = IF next.ok THEN "reduce" ELSE "abort",
                      !.k = sc.k + 1,
                      !.challenges = Append(sc.challenges, round_challenge),
                      !.before = current,
                      !.round_proof = current_poly,
                      !.round_claim = next]
    /\ UNCHANGED <<eq, wire, poly, prover, proof, oracle, verifier,
                   circuit, gkr>>

InitReduce ==
    /\ ReduceInit
    /\ eq = Idle /\ wire = Idle /\ poly = Idle /\ prover = Idle
    /\ proof = Idle /\ oracle = {} /\ verifier = Idle
    /\ circuit = Idle /\ gkr = Idle

NextReduce == ReduceRound

SpecReduce == InitReduce /\ [][NextReduce]_vars

\* C17: reduce_claim on the running claim c, the round proof e1..ed and the
\* challenge r gives the claim s(r), s the polynomial of degree at most d
\* through (0, c - e1), (1, e1), ..., (d, ed), here the one the coefficient
\* form of the codec evaluates; its evaluation point is the one before with
\* r appended, and after k rounds the prefix followed by the k challenges in
\* round order.
C17_ReduceClaim ==
    (sc.pc \in {"reduce", "abort"} /\ sc.k >= 1) =>
      LET c == sc.before.claim
          e == sc.round_proof
          r == sc.challenges[sc.k]
          s == to_poly(e, c)
      IN /\ sc.pc = "reduce"
         /\ sc.round_claim.ok
         /\ s.ok /\ Len(s.val) = sc.d
         /\ sc.round_claim.claim = evaluate_using_claim(s.val, c, r).val[1]
         /\ r = ZERO => sc.round_claim.claim = FSub(c, e[1])
         /\ \A i \in 1 .. sc.d :
              r = FromInt(i) => sc.round_claim.claim = e[i]
         /\ sc.round_claim.eval_point = Append(sc.before.eval_point, r)
         /\ Len(sc.round_claim.eval_point) = Len(sc.before.eval_point) + 1
         /\ sc.round_claim.eval_point = sc.prefix \o sc.challenges
         /\ Len(sc.challenges) = sc.k

\* the second round of a reduction of degree 3 that started from a prefix
C17_Witness ==
    /\ sc.pc = "reduce" /\ sc.d = 3 /\ sc.k = 2
    /\ sc.prefix = <<2>>
    /\ sc.round_proof = <<1, 3, 3>>
    /\ sc.round_claim.eval_point = <<2, 4, 3>>
    /\ sc.round_claim.claim # ZERO

(***************************************************************************)
(* The GKR protocol over the fraction circuit: prove gives the circuit     *)
(* output and one sum-check proof per layer above the input layer, from    *)
(* the output layer down; verify consumes them layer by layer.  A proof is *)
(* kept by its layer, its composition and the length of its round proofs.  *)
(***************************************************************************)

\* GkrComposition::max_degree and GkrCompositionMerge::max_degree
GkrComposition_max_degree == 3

GkrCompositionMerge_max_degree == 5

max_degree_of(composition) ==
    IF composition = "GkrCompositionMerge"
    THEN GkrCompositionMerge_max_degree ELSE GkrComposition_max_degree

\* every layer is run with GkrComposition
GkrCompositionOf_uniform(layer) == "GkrComposition"

\* the composition of the sum-check of a layer; layer 1 is the input layer,
\* layer 2 the one adjacent to it
GkrCompositionOf(layer) ==
    IF layer = 2 THEN "GkrCompositionMerge" ELSE "GkrComposition"

\* the sum-check proof of a layer
GkrLayerProof(layer) ==
    [layer |-> layer,
     composition |-> GkrCompositionOf(layer),
     round_proof_len |-> max_degree_of(GkrCompositionOf(layer))]

\* the number of layers of the circuit over the trace, the input layer
\* included
GkrNumLayers == Log2(NUM_WIRES_PER_TRACE_ROW * Pow2(circuit.log_rows)) + 1

NoOutputs == [numerators |-> <<>>, denominators |-> <<>>]

GkrInit ==
    gkr = [pc |-> "wait", circuit_outputs |-> NoOutputs, proofs |-> <<>>,
           consumed |-> <<>>, result |-> "none"]

\* prove: the circuit is evaluated and its output layer goes to the proof
GkrProveOutputs ==
    /\ gkr.pc = "wait"
    /\ circuit.pc = "done"
    /\ gkr' = [gkr EXCEPT
                 !.pc = "prove",
                 !.circuit_outputs =
                    CircuitLayerPolys(circuit.layers[Len(circuit.layers)])]
    /\ UNCHANGED <<eq, wire, poly, sc, prover, proof, oracle, verifier,
                   circuit>>

\* prove: the sum-check of the next layer down is run and its proof is
\* appended; the layer adjacent to the input layer is the last
GkrProveLayer ==
    /\ gkr.pc = "prove"
    /\ \E layer \in {Len(circuit.layers) - Len(gkr.proofs)} :
         gkr' = [gkr EXCEPT
                   !.pc = IF layer = 2 THEN "verify" ELSE "prove",
                   !.proofs = Append(gkr.proofs, GkrLayerProof(layer))]
    /\ UNCHANGED <<eq, wire, poly, sc, prover, proof, oracle, verifier,
                   circuit>>

\* verify: the next proof is consumed for the next layer down, with the
\* composition the verifier expects for that layer
GkrVerifyLayer ==
    /\ gkr.pc = "verify"
    /\ Len(gkr.consumed) < GkrNumLayers - 1
    /\ \E layer \in {GkrNumLayers - Len(gkr.consumed)} :
         gkr' =
           IF \/ Len(gkr.proofs) <= Len(gkr.consumed)
              \/ gkr.proofs[Len(gkr.consumed) + 1].round_proof_len
                   # max_degree_of(IF layer = 2 THEN "GkrCompositionMerge"
                                   ELSE "GkrComposition")
           THEN [gkr EXCEPT !.pc = "done", !.result = "Err"]
           ELSE [gkr EXCEPT
                   !.consumed =
                      Append(gkr.consumed,
                             gkr.proofs[Len(gkr.consumed) + 1].layer)]
    /\ UNCHANGED <<eq, wire, poly, sc, prover, proof, oracle, verifier,
                   circuit>>

\* verify: every layer above the input layer has been reduced
GkrVerifyDone ==
    /\ gkr.pc = "verify"
    /\ Len(gkr.consumed) = GkrNumLayers - 1
    /\ gkr' = [gkr EXCEPT
                 !.pc = "done",
                 !.result = IF Len(gkr.proofs) = Len(gkr.consumed)
                            THEN "Ok" ELSE "Err"]
    /\ UNCHANGED <<eq, wire, poly, sc, prover, proof, oracle, verifier,
                   circuit>>

InitGkr ==
    /\ CircuitInit
    /\ GkrInit
    /\ eq = Idle /\ wire = Idle /\ poly = Idle /\ sc = Idle /\ prover = Idle
    /\ proof = Idle /\ oracle = {} /\ verifier = Idle

NextGkr ==
    \/ CircuitInputRow
    \/ CircuitReduceLayer
    \/ GkrProveOutputs
    \/ GkrProveLayer
    \/ GkrVerifyLayer
    \/ GkrVerifyDone

SpecGkr == InitGkr /\ [][NextGkr]_vars

\* a step of prove appends one proof, the one of the layer below the layer
\* of the last proof; a step of verify consumes the proof that follows the
\* last one consumed; the circuit output and the proofs do not change once
\* given
GkrInOrder ==
    /\ gkr.proofs' # gkr.proofs =>
         /\ gkr.pc = "prove"
         /\ Len(gkr.proofs') = Len(gkr.proofs) + 1
         /\ SubSeq(gkr.proofs', 1, Len(gkr.proofs)) = gkr.proofs
         /\ gkr.proofs'[Len(gkr.proofs')].layer
              = IF gkr.proofs = <<>> THEN Len(circuit.layers)
                ELSE gkr.proofs[Len(gkr.proofs)].layer - 1
    /\ gkr.consumed' # gkr.consumed =>
         /\ gkr.pc = "verify"
         /\ gkr.proofs' = gkr.proofs
         /\ gkr.consumed'
              = Append(gkr.consumed, gkr.proofs[Len(gkr.consumed) + 1].layer)
    /\ gkr.pc # "wait" => gkr.circuit_outputs' = gkr.circuit_outputs

\* the proof once prove has finished
GkrStructure ==
    gkr.pc \in {"verify", "done"} =>
      LET n == Len(circuit.layers)
          output == circuit.layers[n][1]
          m == Len(gkr.proofs)
      IN /\ gkr.circuit_outputs
              = [numerators |-> <<output.numerator>>,
                 denominators |-> <<output.denominator>>]
         /\ m = n - 1
         /\ m = Log2(NUM_WIRES_PER_TRACE_ROW * Pow2(circuit.log_rows))
         /\ \A i \in 1 .. m :
              /\ gkr.proofs[i].layer = n + 1 - i
              /\ gkr.proofs[i].composition
                   = IF i = m THEN "GkrCompositionMerge" ELSE "GkrComposition"
              /\ gkr.proofs[i].round_proof_len = IF i = m THEN 5 ELSE 3
         /\ gkr.result # "Err"
         /\ \A i \in 1 .. Len(gkr.consumed) :
              gkr.consumed[i] = gkr.proofs[i].layer
         /\ gkr.pc = "done" =>
              /\ gkr.result = "Ok"
              /\ gkr.consumed = [i \in 1 .. m |-> gkr.proofs[i].layer]

\* C15: the proof of prove holds the numerator and the denominator of the
\* output layer and exactly one sum-check proof per layer above the input
\* layer, appended from the output layer down to the layer adjacent to the
\* input layer; the last one alone is run with GkrCompositionMerge, the
\* others with GkrComposition; verify consumes them in that order and
\* accepts.
C15_GkrProofStructure == [][GkrInOrder]_vars /\ [](GkrStructure)

\* verify has consumed the four proofs of a circuit over two rows
C15_Witness ==
    /\ gkr.pc = "done" /\ gkr.result = "Ok"
    /\ circuit.log_rows = 1
    /\ Len(gkr.proofs) = 4
    /\ gkr.consumed = <<5, 4, 3, 2>>
    /\ gkr.proofs[4].composition = "GkrCompositionMerge"
    /\ gkr.proofs[1].composition = "GkrComposition"

(***************************************************************************)
(* circuit/mod.rs: GkrComposition, the composition of the sum-checks of    *)
(* all layers but the one adjacent to the input layer.  Its machine        *)
(* evaluates it once on a query of five field elements.                    *)
(***************************************************************************)

\* the composition with the denominators' product left out of the batch
GkrComposition_evaluate_slip(combining_randomness, query) ==
    LET eval_left_numerator == At(query, 0)
        eval_right_numerator == At(query, 1)
        eval_left_denominator == At(query, 2)
        eval_right_denominator == At(query, 3)
        eq_eval == At(query, 4)
    IN FMul(eq_eval,
            FAdd(FAdd(FMul(eval_left_numerator, eval_right_denominator),
                      FMul(eval_right_numerator, eval_left_denominator)),
                 FMul(eval_left_denominator, combining_randomness)))

\* GkrComposition::evaluate
GkrComposition_evaluate(combining_randomness, query) ==
    LET eval_left_numerator == At(query, 0)
        eval_right_numerator == At(query, 1)
        eval_left_denominator == At(query, 2)
        eval_right_denominator == At(query, 3)
        eq_eval == At(query, 4)
    IN FMul(eq_eval,
            FAdd(FAdd(FMul(eval_left_numerator, eval_right_denominator),
                      FMul(eval_right_numerator, eval_left_denominator)),
                 FMul(FMul(eval_left_denominator, eval_right_denominator),
                      combining_randomness)))

\* the length of the query of GkrComposition
GkrQueryLen == 5

CompositionInit ==
    \E combining_randomness \in F, query \in Vec(F, GkrQueryLen) :
      gkr = [pc |-> "query", combining_randomness |-> combining_randomness,
             query |-> query, value |-> ZERO]

CompositionEvaluate ==
    /\ gkr.pc = "query"
    /\ gkr' = [gkr EXCEPT
                 !.pc = "evaluated",
                 !.value = GkrComposition_evaluate(gkr.combining_randomness,
                                                   gkr.query)]
    /\ UNCHANGED <<eq, wire, poly, sc, prover, proof, oracle, verifier,
                   circuit>>

InitComposition ==
    /\ CompositionInit
    /\ eq = Idle /\ wire = Idle /\ poly = Idle /\ sc = Idle /\ prover = Idle
    /\ proof = Idle /\ oracle = {} /\ verifier = Idle /\ circuit = Idle

NextComposition == CompositionEvaluate

SpecComposition == InitComposition /\ [][NextComposition]_vars

\* C22: on the query [nl, nr, dl, dr, eq] and the combining randomness
\* lambda, GkrComposition::evaluate gives eq * (N + lambda * D) with
\* N = nl*dr + nr*dl and D = dl*dr; whenever the wires (nl, dl) and (nr, dr)
\* exist, their sum exists and has numerator N and denominator D.
C22_CompositionIsGate ==
    gkr.pc = "evaluated" =>
      LET nl == gkr.query[1]
          nr == gkr.query[2]
          dl == gkr.query[3]
          dr == gkr.query[4]
          eq_eval == gkr.query[5]
          N == FAdd(FMul(nl, dr), FMul(nr, dl))
          D == FMul(dl, dr)
          left == CircuitWire_new(nl, dl)
          right == CircuitWire_new(nr, dr)
          gate == CircuitWire_add(left, right)
      IN /\ gkr.value = FMul(eq_eval, FAdd(N, FMul(gkr.combining_randomness, D)))
         /\ (left.ok /\ right.ok) =>
              /\ gate.ok
              /\ gate.numerator = N /\ gate.denominator = D
              /\ gkr.value
                   = FMul(eq_eval,
                          FAdd(gate.numerator,
                               FMul(gkr.combining_randomness,
                                    gate.denominator)))

\* the fractions 1/2 and 3/4 under eq = 2 and lambda = 3: N = 0, D = 3
C22_Witness ==
    /\ gkr.pc = "evaluated"
    /\ gkr.query = <<1, 3, 2, 4, 2>>
    /\ gkr.combining_randomness = 3
    /\ gkr.value = 3

(***************************************************************************)
(* circuit/mod.rs: GkrCompositionMerge, the composition of the sum-check   *)
(* of the layer adjacent to the input layer.  Its machine constructs it    *)
(* from a merge randomness of some length and evaluates it once on a row   *)
(* of the main trace together with query[TRACE_WIDTH].                     *)
(***************************************************************************)

\* MultiLinearPoly::project_least_significant_variable: the evaluations at
\* the even and at the odd indices
project_least_significant_variable(evaluations) ==
    << [k \in 1 .. (Len(evaluations) \div 2) |-> At(evaluations, 2 * (k - 1))],
       [k \in 1 .. (Len(evaluations) \div 2) |->
          At(evaluations, 2 * (k - 1) + 1)] >>

\* MultiLinearPoly::evaluate_with_lagrange_kernel
evaluate_with_lagrange_kernel(evaluations, lagrange_kernel) ==
    inner_product(evaluations, lagrange_kernel)

\* the query of GkrCompositionMerge: a row and query[TRACE_WIDTH]
MergeQuery(row, eq_eval) == [eq |-> eq_eval] @@ row

\* GkrCompositionMerge::new
GkrCompositionMerge_new(combining_randomness, merge_randomness, log_up_randomness) ==
    [sum_check_combining_randomness |-> combining_randomness,
     tensored_merge_randomness |-> EqEvaluations(merge_randomness),
     log_up_randomness |-> log_up_randomness]

\* the composition with the right denominators read from the left half
GkrCompositionMerge_evaluate_slip(self, query) ==
    LET fractions == evaluate_fractions_at_main_trace_query(
                       query, self.log_up_randomness)
        numerators == project_least_significant_variable(fractions[1])
        denominators == project_least_significant_variable(fractions[2])
        eval_left_numerators ==
          evaluate_with_lagrange_kernel(numerators[1],
                                        self.tensored_merge_randomness)
        eval_right_numerators ==
          evaluate_with_lagrange_kernel(numerators[2],
                                        self.tensored_merge_randomness)
        eval_left_denominators ==
          evaluate_with_lagrange_kernel(denominators[1],
                                        self.tensored_merge_randomness)
        eval_right_denominators ==
          evaluate_with_lagrange_kernel(denominators[1],
                                        self.tensored_merge_randomness)
        eq_eval == query.eq
    IN IF \/ ~eval_left_numerators.ok \/ ~eval_right_numerators.ok
          \/ ~eval_left_denominators.ok \/ ~eval_right_denominators.ok
       THEN [ok |-> FALSE, val |-> ZERO]
       ELSE [ok |-> TRUE,
             val |-> FMul(eq_eval,
                       FAdd(FAdd(FMul(eval_left_numerators.val,
                                      eval_right_denominators.val),
                                 FMul(eval_right_numerators.val,
                                      eval_left_denominators.val)),
                            FMul(FMul(eval_left_denominators.val,
                                      eval_right_denominators.val),
                                 self.sum_check_combining_randomness)))]

\* GkrCompositionMerge::evaluate; a failed length assertion of an inner
\* product ends it
GkrCompositionMerge_evaluate(self, query) ==
    LET fractions == evaluate_fractions_at_main_trace_query(
                       query, self.log_up_randomness)
        numerators == project_least_significant_variable(fractions[1])
        denominators == project_least_significant_variable(fractions[2])
        eval_left_numerators ==
          evaluate_with_lagrange_kernel(numerators[1],
                                        self.tensored_merge_randomness)
        eval_right_numerators ==
          evaluate_with_lagrange_kernel(numerators[2],
                                        self.tensored_merge_randomness)
        eval_left_denominators ==
          evaluate_with_lagrange_kernel(denominators[1],
                                        self.tensored_merge_randomness)
        eval_right_denominators ==
          evaluate_with_lagrange_kernel(denominators[2],
                                        self.tensored_merge_randomness)
        eq_eval == query.eq
    IN IF \/ ~eval_left_numerators.ok \/ ~eval_right_numerators.ok
          \/ ~eval_left_denominators.ok \/ ~eval_right_denominators.ok
       THEN [ok |-> FALSE, val |-> ZERO]
       ELSE [ok |-> TRUE,
             val |-> FMul(eq_eval,
                       FAdd(FAdd(FMul(eval_left_numerators.val,
                                      eval_right_denominators.val),
                                 FMul(eval_right_numerators.val,
                                      eval_left_denominators.val)),
                            FMul(FMul(eval_left_denominators.val,
                                      eval_right_denominators.val),
                                 self.sum_check_combining_randomness)))]

\* the bound of the merge machine: the merge randomness has at most
\* MaxMergeLen entries
MaxMergeLen == 3

\* the values of the entries of the merge randomness
MergeValues == {0, 1, 2, 3}

\* the selector and op-bit triples of the rows of the merge machine
MergeBits == {<<1, 1, 0>>, <<2, 3, 4>>}

\* the rows of the merge machine; the looked-up columns take the values
\* w, w + 1, ..., all different
MergeRows ==
    {Query(multiplicity, mem_selec, <<op_bits[2], op_bits[3], op_bits[1]>>,
           v, <<w, FAdd(w, 1)>>,
           <<FAdd(w, 2), FAdd(w, 3), FAdd(w, 4), w>>) :
       multiplicity \in {2, 3}, mem_selec \in MergeBits, op_bits \in MergeBits,
       v \in LookupValues, w \in LookupValues}

NoComposition ==
    [sum_check_combining_randomness |-> ZERO,
     tensored_merge_randomness |-> <<>>,
     log_up_randomness |-> <<>>]

MergeInit ==
    \E len \in 0 .. MaxMergeLen, row \in MergeRows :
      \E merge_randomness \in Vec(MergeValues, len),
         combining_randomness \in {1, 4}, alpha \in FractionsAlphas,
         eq_eval \in {1, 3} :
        gkr = [pc |-> "new",
               combining_randomness |-> combining_randomness,
               merge_randomness |-> merge_randomness,
               log_up_randomness |-> <<alpha>>,
               query |-> MergeQuery(row, eq_eval),
               composition |-> NoComposition,
               value |-> [ok |-> TRUE, val |-> ZERO]]

MergeNew ==
    /\ gkr.pc = "new"
    /\ gkr' = [gkr EXCEPT
                 !.pc = "query",
                 !.composition =
                    GkrCompositionMerge_new(gkr.combining_randomness,
                                            gkr.merge_randomness,
                                            gkr.log_up_randomness)]
    /\ UNCHANGED <<eq, wire, poly, sc, prover, proof, oracle, verifier,
                   circuit>>

MergeEvaluate ==
    /\ gkr.pc = "query"
    /\ \E value \in {GkrCompositionMerge_evaluate(gkr.composition,
                                                  gkr.query)} :
         gkr' = [gkr EXCEPT
                   !.pc = IF value.ok THEN "evaluated" ELSE "abort",
                   !.value = value]
    /\ UNCHANGED <<eq, wire, poly, sc, prover, proof, oracle, verifier,
                   circuit>>

InitMerge ==
    /\ MergeInit
    /\ eq = Idle /\ wire = Idle /\ poly = Idle /\ sc = Idle /\ prover = Idle
    /\ proof = Idle /\ oracle = {} /\ verifier = Idle /\ circuit = Idle

NextMerge == MergeNew \/ MergeEvaluate

SpecMerge == InitMerge /\ [][NextMerge]_vars

\* the sum over k of K[k] * values[2k + offset], indices from 0
MergedHalf(K, values, offset) ==
    SumSeq([k \in 1 .. Len(K) |-> FMul(K[k], At(values, 2 * (k - 1) + offset))])

\* C23: with a merge randomness rho of length 2, the kernel K is the
\* Lagrange kernel at rho, of length 4, and GkrCompositionMerge::evaluate
\* equals GkrComposition::evaluate under the same combining randomness on
\* [NL, NR, DL, DR, query[TRACE_WIDTH]], where NL and DL merge with K the
\* numerators and denominators of the row at the even indices, NR and DR
\* those at the odd indices; with a merge randomness of any other length
\* the evaluation aborts.
C23_MergeIsComposition ==
    gkr.pc \in {"evaluated", "abort"} =>
      LET K == gkr.composition.tensored_merge_randomness
          fractions == evaluate_fractions_at_main_trace_query(
                         gkr.query, gkr.log_up_randomness)
          num == fractions[1]
          den == fractions[2]
      IN /\ Len(K) = Pow2(Len(gkr.merge_randomness))
         /\ \A k \in 1 .. Len(K) : K[k] = EqTerm(gkr.merge_randomness, k - 1)
         /\ Len(num) = NUM_WIRES_PER_TRACE_ROW
         /\ Len(den) = NUM_WIRES_PER_TRACE_ROW
         /\ Len(gkr.merge_randomness) = 2 =>
              /\ gkr.pc = "evaluated"
              /\ Len(K) = 4
              /\ gkr.value.val
                   = GkrComposition_evaluate(
                       gkr.combining_randomness,
                       <<MergedHalf(K, num, 0), MergedHalf(K, num, 1),
                         MergedHalf(K, den, 0), MergedHalf(K, den, 1),
                         gkr.query.eq>>)
         /\ Len(gkr.merge_randomness) # 2 => gkr.pc = "abort"

\* a memory row merged at rho = (2, 3)
C23_Witness ==
    /\ gkr.pc = "evaluated"
    /\ gkr.merge_randomness = <<2, 3>>
    /\ gkr.query.mem_selec0 = 1 /\ gkr.query.mem_selec1 = 1
    /\ gkr.query.mem_selec2 = 0
    /\ gkr.query.multiplicity = 3
    /\ gkr.value.val # ZERO

\* the evaluation aborts on a merge randomness of length 3, and on the
\* empty one
C23_WitnessAbort ==
    /\ gkr.pc = "abort"
    /\ Len(gkr.merge_randomness) \in {0, 3}

(***************************************************************************)
(* The compositions along a line of the query space.  A polynomial in t is *)
(* the sequence of its coefficients, the constant one first; the entries   *)
(* of a query on the line t -> q0 + t*q1 are the polynomials <<q0, q1>>,   *)
(* and the compositions are evaluated on them with the arithmetic of       *)
(* polynomials in the place of the arithmetic of the field.                *)
(***************************************************************************)

Coef(p, k) == IF k <= Len(p) THEN p[k] ELSE ZERO

PolyConst(c) == <<c>>

PolyAdd(a, b) ==
    [k \in 1 .. (IF Len(a) > Len(b) THEN Len(a) ELSE Len(b)) |->
       FAdd(Coef(a, k), Coef(b, k))]

PolyNeg(a) == [k \in 1 .. Len(a) |-> FNeg(a[k])]

PolySub(a, b) == PolyAdd(a, PolyNeg(b))

PolyScale(c, a) == [k \in 1 .. Len(a) |-> FMul(c, a[k])]

\* the coefficient of t^(k-1) of the product: the sum of a[i] * b[k+1-i]
RECURSIVE ConvFold(_, _, _, _, _)
ConvFold(acc, a, b, k, i) ==
    IF i > Len(a) \/ i > k THEN acc
    ELSE ConvFold(FAdd(acc, FMul(a[i], Coef(b, k + 1 - i))), a, b, k, i + 1)

PolyMul(a, b) ==
    IF a = <<>> \/ b = <<>> THEN <<>>
    ELSE [k \in 1 .. (Len(a) + Len(b) - 1) |-> ConvFold(ZERO, a, b, k, 1)]

\* the degree of a polynomial, -1 for the zero polynomial
PolyDegree(p) ==
    IF \A k \in 1 .. Len(p) : p[k] = ZERO THEN -1
    ELSE (CHOOSE k \in 1 .. Len(p) :
            p[k] # ZERO /\ \A j \in (k + 1) .. Len(p) : p[j] = ZERO) - 1

\* the query on the line through q0 with direction q1, and its point at t
LineOf(q0, q1) == [f \in DOMAIN q0 |-> <<q0[f], q1[f]>>]

LineAt(line, t) == [f \in DOMAIN line |-> eval(line[f], t)]

\* GkrComposition::evaluate with one more factor eq
GkrComposition_evaluate_on_line_squared(combining_randomness, query) ==
    LET eval_left_numerator == At(query, 0)
        eval_right_numerator == At(query, 1)
        eval_left_denominator == At(query, 2)
        eval_right_denominator == At(query, 3)
        eq_eval == At(query, 4)
    IN PolyMul(PolyMul(eq_eval, eq_eval),
               PolyAdd(PolyAdd(PolyMul(eval_left_numerator,
                                       eval_right_denominator),
                               PolyMul(eval_right_numerator,
                                       eval_left_denominator)),
                       PolyMul(PolyMul(eval_left_denominator,
                                       eval_right_denominator),
                               PolyConst(combining_randomness))))

\* GkrComposition::evaluate on a query of polynomials
GkrComposition_evaluate_on_line(combining_randomness, query) ==
    LET eval_left_numerator == At(query, 0)
        eval_right_numerator == At(query, 1)
        eval_left_denominator == At(query, 2)
        eval_right_denominator == At(query, 3)
        eq_eval == At(query, 4)
    IN PolyMul(eq_eval,
               PolyAdd(PolyAdd(PolyMul(eval_left_numerator,
                                       eval_right_denominator),
                               PolyMul(eval_right_numerator,
                                       eval_left_denominator)),
                       PolyMul(PolyMul(eval_left_denominator,
                                       eval_right_denominator),
                               PolyConst(combining_randomness))))

\* evaluate_fractions_at_main_trace_query on a query of polynomials
evaluate_fractions_at_main_trace_query_on_line(query, log_up_randomness) ==
    LET multiplicity == query.multiplicity
        f_m == PolyMul(PolyMul(query.mem_selec0, query.mem_selec1),
                       PolySub(PolyConst(ONE), query.mem_selec2))
        f_rc == PolyMul(PolyMul(PolySub(PolyConst(ONE), query.op_bit_4),
                                PolySub(PolyConst(ONE), query.op_bit_5)),
                        query.op_bit_6)
        alpha == PolyConst(At(log_up_randomness, 0))
        table_denom == PolySub(alpha, query.v)
        memory_denom_0 == PolyNeg(PolySub(alpha, query.memory_d0))
        memory_denom_1 == PolyNeg(PolySub(alpha, query.memory_d1))
        stack_value_denom_0 == PolyNeg(PolySub(alpha, query.helper0))
        stack_value_denom_1 == PolyNeg(PolySub(alpha, query.helper1))
        stack_value_denom_2 == PolyNeg(PolySub(alpha, query.helper2))
        stack_value_denom_3 == PolyNeg(PolySub(alpha, query.helper3))
    IN << <<multiplicity, f_m, f_m, f_rc, f_rc, f_rc, f_rc, PolyConst(ZERO)>>,
          <<table_denom, memory_denom_0, memory_denom_1,
            stack_value_denom_0, stack_value_denom_1,
            stack_value_denom_2, stack_value_denom_3, PolyConst(ONE)>> >>

\* inner_product of polynomials with a kernel of field elements of the
\* same length
RECURSIVE InnerFoldOnLine(_, _, _, _)
InnerFoldOnLine(acc, evaluations, tensored_query, k) ==
    IF k > Len(evaluations) THEN acc
    ELSE InnerFoldOnLine(
           PolyAdd(acc, PolyScale(tensored_query[k], evaluations[k])),
           evaluations, tensored_query, k + 1)

evaluate_with_lagrange_kernel_on_line(evaluations, lagrange_kernel) ==
    InnerFoldOnLine(PolyConst(ZERO), evaluations, lagrange_kernel, 1)

\* GkrCompositionMerge::evaluate on a query of polynomials, for a kernel
\* of the length of the halves
GkrCompositionMerge_evaluate_on_line(self, query) ==
    LET fractions == evaluate_fractions_at_main_trace_query_on_line(
                       query, self.log_up_randomness)
        numerators == project_least_significant_variable(fractions[1])
        denominators == project_least_significant_variable(fractions[2])
        eval_left_numerators ==
          evaluate_with_lagrange_kernel_on_line(
            numerators[1], self.tensored_merge_randomness)
        eval_right_numerators ==
          evaluate_with_lagrange_kernel_on_line(
            numerators[2], self.tensored_merge_randomness)
        eval_left_denominators ==
          evaluate_with_lagrange_kernel_on_line(
            denominators[1], self.tensored_merge_randomness)
        eval_right_denominators ==
          evaluate_with_lagrange_kernel_on_line(
            denominators[2], self.tensored_merge_randomness)
        eq_eval == query.eq
    IN PolyMul(eq_eval,
               PolyAdd(PolyAdd(PolyMul(eval_left_numerators,
                                       eval_right_denominators),
                               PolyMul(eval_right_numerators,
                                       eval_left_denominators)),
                       PolyMul(PolyMul(eval_left_denominators,
                                       eval_right_denominators),
                               PolyConst(self.sum_check_combining_randomness))))

(***************************************************************************)
(* The line machine: a composition and a line of its query space are       *)
(* given; the composition is restricted to the line.                       *)
(***************************************************************************)

\* the directions of the lines of GkrCompositionMerge
LineDirections ==
    {Query(multiplicity, mem_selec, op_bits, v, <<w, w>>, <<w, w, w, w>>) :
       multiplicity \in {1},
       mem_selec \in {<<0, 0, 0>>, <<1, 2, 3>>},
       op_bits \in {<<0, 0, 0>>, <<1, 2, 3>>},
       v \in {1}, w \in {0, 1}}

\* the lines of query[TRACE_WIDTH]
EqLines == {<<1, 1>>, <<3, 0>>, <<2, 4>>}

MergeLines ==
    {MergeQuery(LineOf(q0, q1), eq_eval) :
       q0 \in MergeRows, q1 \in LineDirections, eq_eval \in EqLines}

CompositionLines ==
    {[i \in 1 .. GkrQueryLen |-> <<q0[i], q1[i]>>] :
       q0 \in Vec({1, 2}, GkrQueryLen), q1 \in Vec({0, 1}, GkrQueryLen)}

LineInit ==
    \/ \E combining_randomness \in {1, 4}, line \in CompositionLines :
         gkr = [pc |-> "line", composition |-> "GkrComposition",
                combining_randomness |-> combining_randomness,
                merge_randomness |-> <<>>, log_up_randomness |-> <<>>,
                line |-> line, restriction |-> <<>>]
    \/ \E combining_randomness \in {1, 4}, line \in MergeLines,
          merge_randomness \in {<<2, 3>>, <<1, 0>>} :
         gkr = [pc |-> "line", composition |-> "GkrCompositionMerge",
                combining_randomness |-> combining_randomness,
                merge_randomness |-> merge_randomness,
                log_up_randomness |-> <<2>>,
                line |-> line, restriction |-> <<>>]

LineRestrict ==
    /\ gkr.pc = "line"
    /\ gkr' = [gkr EXCEPT
                 !.pc = "restricted",
                 !.restriction =
                    IF gkr.composition = "GkrComposition"
                    THEN GkrComposition_evaluate_on_line(
                           gkr.combining_randomness, gkr.line)
                    ELSE GkrCompositionMerge_evaluate_on_line(
                           GkrCompositionMerge_new(gkr.combining_randomness,
                                                   gkr.merge_randomness,
                                                   gkr.log_up_randomness),
                           gkr.line)]
    /\ UNCHANGED <<eq, wire, poly, sc, prover, proof, oracle, verifier,
                   circuit>>

InitLine ==
    /\ LineInit
    /\ eq = Idle /\ wire = Idle /\ poly = Idle /\ sc = Idle /\ prover = Idle
    /\ proof = Idle /\ oracle = {} /\ verifier = Idle /\ circuit = Idle

NextLine == LineRestrict

SpecLine == InitLine /\ [][NextLine]_vars

\* the value of the composition of the machine at the point t of its line
ValueOnLine(t) ==
    IF gkr.composition = "GkrComposition"
    THEN GkrComposition_evaluate(
           gkr.combining_randomness,
           [i \in 1 .. Len(gkr.line) |-> eval(gkr.line[i], t)])
    ELSE GkrCompositionMerge_evaluate(
           GkrCompositionMerge_new(gkr.combining_randomness,
                                   gkr.merge_randomness,
                                   gkr.log_up_randomness),
           LineAt(gkr.line, t)).val

\* C21: along a line t -> q0 + t*q1 of its query space, GkrComposition is
\* a polynomial in t of degree at most 3 and GkrCompositionMerge one of
\* degree at most 5, their max_degree: the restriction has the values of
\* evaluate at every point of the line; and the coefficients of a
\* restriction s of GkrComposition are the ones to_poly gives from s(1),
\* s(2), s(3) and the claim s(0) + s(1).
C21_DegreeBounds ==
    gkr.pc = "restricted" =>
      LET s == gkr.restriction
          d == max_degree_of(gkr.composition)
      IN /\ PolyDegree(s) <= d
         /\ gkr.composition = "GkrComposition" => PolyDegree(s) <= 3
         /\ gkr.composition = "GkrCompositionMerge" => PolyDegree(s) <= 5
         /\ \A t \in F : eval(s, t) = ValueOnLine(t)
         /\ gkr.composition = "GkrComposition" =>
              LET c == to_poly([i \in 1 .. d |-> eval(s, FromInt(i))],
                               FAdd(eval(s, ZERO), eval(s, ONE)))
              IN /\ c.ok
                 /\ c.val = <<Coef(s, 1)>> \o [k \in 1 .. (d - 1) |-> Coef(s, k + 2)]

\* a line on which GkrCompositionMerge has degree 5
C21_Witness ==
    /\ gkr.pc = "restricted"
    /\ gkr.composition = "GkrCompositionMerge"
    /\ PolyDegree(gkr.restriction) = 5

\* a line on which GkrComposition has degree 3
C21_WitnessComposition ==
    /\ gkr.pc = "restricted"
    /\ gkr.composition = "GkrComposition"
    /\ PolyDegree(gkr.restriction) = 3

(***************************************************************************)
(* The two evaluators of a round polynomial                                *)
(***************************************************************************)

\* C24: for the running claim c, the evaluations e of length d >= 1 and
\* the challenge r of the codec machine, the value that evaluate_using_claim
\* gives on to_poly(e, c) and the claim that reduce_claim gives on e, c and
\* r are the same, whichever of the two the machine has computed; it is
\* c - e[0] at r = 0 and e[r-1] at r in 1..d.
C24_EvaluatorsAgree ==
    (poly.pc \in {"codec_done", "reduce_done"} /\ PolyDeg >= 1) =>
      LET c == poly.claim
          e == poly.partial_evals
          r == poly.r
          coef == to_poly(e, c)
          by_codec == IF poly.pc = "codec_done" THEN poly.y
                      ELSE evaluate_using_claim(coef.val, c, r)
          by_domain == IF poly.pc = "reduce_done" THEN poly.reduced
                       ELSE reduce_claim(PolyDeg, e,
                                         [eval_point |-> <<>>, claim |-> c], r)
      IN /\ coef.ok /\ by_codec.ok /\ by_domain.ok
         /\ by_codec.val[1] = by_domain.claim
         /\ r = ZERO => by_codec.val[1] = FSub(c, e[1])
         /\ \A i \in 1 .. PolyDeg : r = FromInt(i) => by_codec.val[1] = e[i]

\* reduce_claim has run on the evaluations (0, 3, 0) of a cubic at r = 4
C24_Witness ==
    /\ poly.pc = "reduce_done"
    /\ poly.partial_evals = <<0, 3, 0>>
    /\ poly.claim = 2
    /\ poly.r = 4
    /\ poly.reduced.claim = eval(poly.p, 4)

(***************************************************************************)
(* The round identity                                                      *)
(***************************************************************************)

\* a round of the verifier on a non-empty round proof: to_evals puts one
\* value in front of the round proof, the two first values sum to the
\* running claim, and the claim goes on as the value at the challenge of
\* the polynomial through the completed evaluations
RoundIdentityStep ==
    (verifier.pc = "round" /\ verifier'.k = verifier.k + 1) =>
      LET rp == proof.round_proofs[verifier.k + 1]
          s == to_evals(rp, verifier.claim)
          r == verifier'.eval_point[verifier.k + 1]
      IN /\ rp # <<>>
         /\ s.ok
         /\ Len(s.val) = Len(rp) + 1
         /\ Tail(s.val) = rp
         /\ FAdd(s.val[1], s.val[2]) = verifier.claim
         /\ verifier'.claim
              = EvaluationDomain_evaluate(max_degree(sc.comp), s.val, r).val[1]
         /\ verifier'.pc = "round" /\ verifier'.result = "none"

\* to_evals on the round proofs of the proof, for every claim; no round
\* has seen the identity fail; a proof is rejected only once all its rounds
\* are consumed, at the final evaluation check
RoundIdentityState ==
    sc.pc = "run" =>
      /\ \A k \in 1 .. Len(proof.round_proofs), claim \in F :
           LET rp == proof.round_proofs[k]
               s == to_evals(rp, claim)
           IN IF rp = <<>> THEN ~s.ok
              ELSE /\ s.ok
                   /\ Len(s.val) = Len(rp) + 1
                   /\ Tail(s.val) = rp
                   /\ FAdd(s.val[1], s.val[2]) = claim
      /\ verifier.round_ok
      /\ verifier.result # "none" =>
           /\ verifier.pc = "done"
           /\ verifier.k = Len(proof.round_proofs)
           /\ verifier.result \in {"Ok", "FinalEvaluationCheckFailed"}
      /\ verifier.pc = "abort" =>
           /\ verifier.k < Len(proof.round_proofs)
           /\ proof.round_proofs[verifier.k + 1] = <<>>

\* C25: on a non-empty round proof and any claim, to_evals gives the round
\* proof with one value in front of it, the first two values summing to the
\* claim; so in every round of verify the reconstructed polynomial has
\* s(0) + s(1) = running claim, whatever the proof holds, and a proof is
\* rejected at the final evaluation check only.
C25_RoundIdentity == [][RoundIdentityStep]_vars /\ [](RoundIdentityState)

\* a claim of 1 on a projection went through two rounds of a proof of
\* zeros and is rejected at the final evaluation check
C25_Witness ==
    /\ sc.pc = "run" /\ sc.comp = "projection" /\ sc.claim = 1
    /\ proof.round_proofs = << <<0>>, <<0>> >>
    /\ verifier.pc = "done" /\ verifier.k = 2
    /\ verifier.round_ok
    /\ verifier.result = "FinalEvaluationCheckFailed"

(***************************************************************************)
(* decoder/aux_trace/block_stack_table.rs: the requests and the responses  *)
(* of the block stack table column p1.  A row of the main trace is a       *)
(* record of the columns the builder reads; op codes are kept by name.     *)
(***************************************************************************)

\* main_trace at row i, rows counted from 0
RowAt(main_trace, i) == main_trace[i + 1]

\* the sum of alpha.mul_base(element) over the zipped alphas and elements
LinearCombination(alphas, elements) ==
    SumSeq([k \in 1 .. (IF Len(alphas) < Len(elements) THEN Len(alphas)
                        ELSE Len(elements)) |->
              FMul(alphas[k], elements[k])])

\* get_block_stack_table_removal_multiplicand
get_block_stack_table_removal_multiplicand(main_trace, i, is_respan, alphas) ==
    LET block_id == RowAt(main_trace, i).addr
        parent_id == IF is_respan
                     THEN At(RowAt(main_trace, i + 1).hasher_state, 1)
                     ELSE RowAt(main_trace, i + 1).addr
        is_loop == RowAt(main_trace, i).is_loop_flag
        elements ==
          IF \/ RowAt(main_trace, i).is_call_flag = ONE
             \/ RowAt(main_trace, i).is_syscall_flag = ONE
          THEN LET parent_ctx == RowAt(main_trace, i + 1).ctx
                   parent_fmp == RowAt(main_trace, i + 1).fmp
                   parent_stack_depth == RowAt(main_trace, i + 1).stack_depth
                   parent_next_overflow_addr ==
                     RowAt(main_trace, i + 1).parent_overflow_address
                   parent_fn_hash == RowAt(main_trace, i).fn_hash
               IN <<ONE, block_id, parent_id, is_loop, parent_ctx, parent_fmp,
                    parent_stack_depth, parent_next_overflow_addr,
                    At(parent_fn_hash, 0), At(parent_fn_hash, 1),
                    At(parent_fn_hash, 2), At(parent_fn_hash, 0)>>
          ELSE <<ONE, block_id, parent_id, is_loop>> \o Zeros(8)
    IN LinearCombination(alphas, elements)

\* get_block_stack_table_inclusion_multiplicand
get_block_stack_table_inclusion_multiplicand(main_trace, i, alphas, op_code) ==
    LET block_id == RowAt(main_trace, i + 1).addr
        parent_id == IF op_code = "RESPAN"
                     THEN At(RowAt(main_trace, i + 1).hasher_state, 1)
                     ELSE RowAt(main_trace, i).addr
        is_loop == IF op_code = "LOOP" THEN RowAt(main_trace, i).stack0
                   ELSE ZERO
        elements ==
          IF op_code = "CALL" \/ op_code = "SYSCALL"
          THEN LET parent_ctx == RowAt(main_trace, i).ctx
                   parent_fmp == RowAt(main_trace, i).fmp
                   parent_stack_depth == RowAt(main_trace, i).stack_depth
                   parent_next_overflow_addr ==
                     RowAt(main_trace, i).parent_overflow_address
                   parent_fn_hash ==
                     SubSeq(RowAt(main_trace, i).hasher_state, 1, 4)
               IN <<ONE, block_id, parent_id, is_loop, parent_ctx, parent_fmp,
                    parent_stack_depth, parent_next_overflow_addr,
                    At(parent_fn_hash, 0), At(parent_fn_hash, 1),
                    At(parent_fn_hash, 2), At(parent_fn_hash, 3)>>
          ELSE <<ONE, block_id, parent_id, is_loop>> \o Zeros(8)
    IN LinearCombination(alphas, elements)

\* BlockStackColumnBuilder::get_requests_at
get_requests_at(main_trace, alphas, i) ==
    LET op_code == RowAt(main_trace, i).op_code
    IN IF op_code = "RESPAN"
       THEN get_block_stack_table_removal_multiplicand(main_trace, i, TRUE,
                                                       alphas)
       ELSE IF op_code = "END"
       THEN get_block_stack_table_removal_multiplicand(main_trace, i, FALSE,
                                                       alphas)
       ELSE ONE

\* BlockStackColumnBuilder::get_responses_at
get_responses_at(main_trace, alphas, i) ==
    LET op_code == RowAt(main_trace, i).op_code
    IN IF op_code \in {"JOIN", "SPLIT", "SPAN", "DYN", "LOOP", "RESPAN",
                       "CALL", "SYSCALL"}
       THEN get_block_stack_table_inclusion_multiplicand(main_trace, i,
                                                         alphas, op_code)
       ELSE ONE

(***************************************************************************)
(* The block stack machine: a trace of four rows, a block-start row, the   *)
(* first row of the block, the row that ends the block and the row after   *)
(* it; the builder computes the requests and the responses row by row.     *)
(***************************************************************************)

StartOps == {"CALL", "SYSCALL", "JOIN", "LOOP", "RESPAN", "ADD"}

EndOps == {"END", "RESPAN", "ADD"}

\* the function hashes a row may hold
FnHashes == {<<1, 2, 3, 4>>, <<1, 1, 1, 1>>, <<2, 0, 3, 2>>}

\* the alphas of the column
BlockStackAlphas ==
    {<<1, 1, 1, 1, 1, 1, 1, 1, 1, 1, 1, 1>>,
     <<1, 2, 3, 4, 1, 2, 3, 4, 1, 2, 3, 4>>,
     <<2, 3, 1, 4, 4, 3, 2, 1, 3, 2, 1, 0>>}

\* a row of the main trace
TraceRow(op_code, addr, hash, ctx, call, syscall) ==
    [op_code |-> op_code, addr |-> addr,
     hasher_state |-> hash \o <<0, 0, 0, 0>>,
     stack0 |-> ONE, is_loop_flag |-> ZERO,
     is_call_flag |-> call, is_syscall_flag |-> syscall,
     ctx |-> ctx, fmp |-> FAdd(ctx, 2), stack_depth |-> FAdd(ctx, 3),
     parent_overflow_address |-> FAdd(ctx, 4),
     fn_hash |-> hash]

BlockStackInit ==
    \E start \in StartOps, end \in EndOps, alphas \in BlockStackAlphas :
      \E parent_id \in {0, 1}, block_id \in {2, 3}, ended_id \in {2, 3},
         ctx \in {0, 1}, ctx_after \in {0, 1},
         hash \in FnHashes, fn_hash \in FnHashes :
        gkr = [pc |-> "build", i |-> 0, alphas |-> alphas,
               main_trace |->
                 <<TraceRow(start, parent_id, hash, ctx, ZERO, ZERO),
                   TraceRow("ADD", block_id, hash, ONE, ZERO, ZERO),
                   TraceRow(end, ended_id, fn_hash, ONE,
                            IF start = "CALL" THEN ONE ELSE ZERO,
                            IF start = "SYSCALL" THEN ONE ELSE ZERO),
                   TraceRow("ADD", parent_id, fn_hash, ctx_after, ZERO, ZERO)>>,
               requests |-> <<>>, responses |-> <<>>]

\* the builder at row i
BlockStackRow ==
    /\ gkr.pc = "build"
    /\ gkr' = [gkr EXCEPT
                 !.pc = IF gkr.i + 2 = Len(gkr.main_trace) THEN "built"
                        ELSE "build",
                 !.i = gkr.i + 1,
                 !.requests = Append(gkr.requests,
                                get_requests_at(gkr.main_trace, gkr.alphas,
                                                gkr.i)),
                 !.responses = Append(gkr.responses,
                                 get_responses_at(gkr.main_trace, gkr.alphas,
                                                  gkr.i))]
    /\ UNCHANGED <<eq, wire, poly, sc, prover, proof, oracle, verifier,
                   circuit>>

InitBlockStack ==
    /\ BlockStackInit
    /\ eq = Idle /\ wire = Idle /\ poly = Idle /\ sc = Idle /\ prover = Idle
    /\ proof = Idle /\ oracle = {} /\ verifier = Idle /\ circuit = Idle

NextBlockStack == BlockStackRow

SpecBlockStack == InitBlockStack /\ [][NextBlockStack]_vars

\* the 12 fields of the row of a CALL or SYSCALL block, as the trace holds
\* them at the row that starts the block (rows i, i + 1) and at the row
\* that ends it (rows j, j + 1)
FieldsAtCall(main_trace, i) ==
    <<ONE, RowAt(main_trace, i + 1).addr, RowAt(main_trace, i).addr, ZERO,
      RowAt(main_trace, i).ctx, RowAt(main_trace, i).fmp,
      RowAt(main_trace, i).stack_depth,
      RowAt(main_trace, i).parent_overflow_address>>
    \o SubSeq(RowAt(main_trace, i).hasher_state, 1, 4)

FieldsAtEnd(main_trace, j) ==
    <<ONE, RowAt(main_trace, j).addr, RowAt(main_trace, j + 1).addr,
      RowAt(main_trace, j).is_loop_flag,
      RowAt(main_trace, j + 1).ctx, RowAt(main_trace, j + 1).fmp,
      RowAt(main_trace, j + 1).stack_depth,
      RowAt(main_trace, j + 1).parent_overflow_address>>
    \o RowAt(main_trace, j).fn_hash

\* C26: when a CALL or SYSCALL block starts at row 0 and ends at row 2 and
\* the trace holds the same 12 field values at both rows, the request at
\* the END equals the response at the CALL or SYSCALL, whatever the
\* alphas; at a row whose op code neither adds nor removes a row, the
\* request and the response are 1.
C26_CallBalance ==
    gkr.pc = "built" =>
      /\ ( /\ RowAt(gkr.main_trace, 0).op_code \in {"CALL", "SYSCALL"}
           /\ RowAt(gkr.main_trace, 2).op_code = "END"
           /\ FieldsAtCall(gkr.main_trace, 0) = FieldsAtEnd(gkr.main_trace, 2) )
         => gkr.requests[3] = gkr.responses[1]
      /\ \A i \in 1 .. Len(gkr.requests) :
           gkr.main_trace[i].op_code = "ADD" =>
             gkr.requests[i] = ONE /\ gkr.responses[i] = ONE

\* the balance holds when the last field is left aside: the fn hash has
\* its first and last elements equal, or alphas[11] is zero
C26_BalanceButLastField ==
    ( /\ gkr.pc = "built"
      /\ RowAt(gkr.main_trace, 0).op_code \in {"CALL", "SYSCALL"}
      /\ RowAt(gkr.main_trace, 2).op_code = "END"
      /\ FieldsAtCall(gkr.main_trace, 0) = FieldsAtEnd(gkr.main_trace, 2)
      /\ \/ At(RowAt(gkr.main_trace, 2).fn_hash, 3)
              = At(RowAt(gkr.main_trace, 2).fn_hash, 0)
         \/ At(gkr.alphas, 11) = ZERO )
    => gkr.requests[3] = gkr.responses[1]

\* a CALL block with matching rows and the fn hash (1, 2, 3, 4): the
\* request at the END differs from the response at the CALL
C26_Unbalanced ==
    /\ gkr.pc = "built"
    /\ RowAt(gkr.main_trace, 0).op_code = "CALL"
    /\ RowAt(gkr.main_trace, 2).op_code = "END"
    /\ FieldsAtCall(gkr.main_trace, 0) = FieldsAtEnd(gkr.main_trace, 2)
    /\ RowAt(gkr.main_trace, 2).fn_hash = <<1, 2, 3, 4>>
    /\ gkr.requests[3] # gkr.responses[1]

====
